---- MODULE Spec2Model ----
(***************************************************************************)
(* A model of the three-web-components element tree: the <three-app>       *)
(* element (camera and scene registries, active selection, frame loop,     *)
(* resize), the <three-camera> element (backend camera, controllers,       *)
(* update cycle) and the <three-scene> element.                            *)
(***************************************************************************)
EXTENDS Integers, Sequences, FiniteSets, TLC

\* ------------------------------------------------------------------ bounds

\* Number of <three-camera> elements.
NumCameras == 3

\* Number of <three-scene> elements, each with an id of its own.
NumScenes == 2

\* ---------------------------------------------------------- JS primitives

\* JavaScript `undefined`, as stored by the constructors.
Undefined == -1

\* JavaScript `null`, which Lit-Element passes to a setter when the
\* attribute is removed.
Null == 0

CameraNodes == 1..NumCameras

SceneNodes == 1..NumScenes

\* The `id` property of scene element s.
SceneIdOf(s) == s

\* Values written to the `camera` property: null, every id in use and one
\* id that no element carries.
CameraRefIds == {Null} \cup CameraNodes \cup {NumCameras + 1}

\* Values written to the `scene` property.
SceneRefIds == {Null} \cup {SceneIdOf(s) : s \in SceneNodes} \cup {NumScenes + 1}

\* ------------------------------------------------------------ Map (ES2015)
\* A Map is the sequence of its entries [id, elt] in insertion order.

MapHas(m, id) == \E i \in 1..Len(m) : m[i].id = id

MapGet(m, id) ==
    IF MapHas(m, id)
    THEN (CHOOSE e \in {m[i] : i \in 1..Len(m)} : e.id = id).elt
    ELSE Undefined

\* Map.prototype.set: an existing key keeps its place, a new key goes last.
MapSet(m, id, elt) ==
    IF MapHas(m, id)
    THEN [i \in 1..Len(m) |-> IF m[i].id = id THEN [m[i] EXCEPT !.elt = elt] ELSE m[i]]
    ELSE Append(m, [id |-> id, elt |-> elt])

\* Map.prototype.delete
MapDelete(m, id) == SelectSeq(m, LAMBDA e : e.id # id)

\* map.values().next().value
MapFirst(m) == IF Len(m) = 0 THEN Undefined ELSE m[1].elt

MapKeys(m) == {m[i].id : i \in 1..Len(m)}

MapElts(m) == {m[i].elt : i \in 1..Len(m)}

\* ------------------------------------------------------- calls and errors
\* What a handler did to its collaborators, in order: one entry per call
\* to a child element, a controller, the backend or the host.

Call(fn, a, b, c) == [fn |-> fn, a |-> a, b |-> b, c |-> c]

\* The uncaught TypeError that ends a handler.
TypeError == Call("TypeError", 0, 0, 0)

\* A handler's progress: the camera records, the calls made so far and
\* whether an exception has ended it.
Run(cs, done, raised) == [cams |-> cs, calls |-> done, threw |-> raised]

\* F applied to the value of v.
With(v, F(_)) == CHOOSE y \in {F(x) : x \in {v}} : TRUE

Throw(r) == With(r, LAMBDA x : [x EXCEPT !.calls = Append(@, TypeError), !.threw = TRUE])

Log(r, call) == [r EXCEPT !.calls = Append(@, call)]

\* The number of calls of fn among cs.
Count(cs, fn) == Cardinality({i \in 1..Len(cs) : cs[i].fn = fn})

\* ------------------------------------------------------- <three-camera>

CameraTypeEnum == {"perspective", "orthographic"}

CameraControlsEnum == {"osc", "orbitter"}

\* Default.options.perspectiveCamera; tenths for fov, near and far, the
\* aspect ratio as <<width, height>>.
DefaultOptions == [fov |-> 450, aspect |-> <<1, 1>>, near |-> 1, far |-> 10000]

\* Default.position and Default.lookAt, in hundredths.
DefaultPosition == <<0, -500, 200>>

DefaultLookAt == <<0, 0, 0>>

\* Default.zoom, in thousandths.
DefaultZoom == 1000

\* The names of the observed properties that `updated()` reads.
CameraProperties == {"type", "options", "position", "lookAt", "zoom", "controls"}

\* The element after its constructor: no backend camera, no controller,
\* every property assigned by the constructor waiting for the first update,
\* which Lit-Element enables when the element is first connected.
NewCamera ==
    [ id         |-> 0,
      mounted    |-> FALSE,
      enabled    |-> FALSE,
      type       |-> "perspective",
      options    |-> DefaultOptions,
      position   |-> DefaultPosition,
      lookAt     |-> DefaultLookAt,
      zoom       |-> DefaultZoom,
      _controls  |-> <<>>,
      _camera    |-> <<>>,
      osc        |-> <<>>,
      orbitter   |-> <<>>,
      changed    |-> {"type", "options", "position", "lookAt", "zoom"},
      oldType    |-> "undefined" ]

\* A THREE camera as its constructor leaves it: at the origin, looking
\* down its own axis (no target), zoom 1.
BackendCamera(type, options) ==
    [ type |-> type, options |-> options, position |-> <<0, 0, 0>>,
      target |-> <<>>, zoom |-> DefaultZoom ]

HasCamera(c) == c._camera # <<>>

\* OscDispose without the call of `this.osc.close()`.
OscDisposeChannelLeftOpen(r, n) ==
    With(r, LAMBDA x :
        IF x.threw THEN x
        ELSE IF ~x.cams[n].osc[1].bound THEN Throw(x)
        ELSE IF x.cams[n].osc[1].channel = "none"
             THEN Throw([x EXCEPT !.cams[n].osc[1].bound = FALSE])
             ELSE [x EXCEPT !.cams[n].osc[1].bound = FALSE])

\* ThreeCameraController.dispose then ThreeCameraOSCController.dispose on
\* the controller of camera n: the base class reads `this.camera.id` and
\* clears `this.camera`, the subclass closes `this.osc` and clears it.
OscDispose(r, n) ==
    With(r, LAMBDA x :
        IF x.threw THEN x
        ELSE IF ~x.cams[n].osc[1].bound THEN Throw(x)
        ELSE IF x.cams[n].osc[1].channel = "none"
             THEN Throw([x EXCEPT !.cams[n].osc[1].bound = FALSE])
             ELSE Log([x EXCEPT !.cams[n].osc = <<[bound |-> FALSE, channel |-> "none"]>>],
                      Call("osc.close", n, 0, 0)))

\* ThreeCameraOrbitController.dispose
OrbitterDispose(r, n) ==
    With(r, LAMBDA x :
        IF x.threw THEN x
        ELSE Log([x EXCEPT !.cams[n].orbitter = <<[bound |-> FALSE]>>],
                 Call("orbitter.dispose", n, 0, 0)))

\* The first half of disposeControls: the OSC controller.
DisposeOsc(r, n) ==
    With(r, LAMBDA x :
        IF x.threw \/ x.cams[n].osc = <<>> THEN x
        ELSE With(OscDispose(x, n), LAMBDA d :
                 IF d.threw THEN d ELSE [d EXCEPT !.cams[n].osc = <<>>]))

\* The second half of disposeControls: the orbit controller.
DisposeOrbitter(r, n) ==
    With(r, LAMBDA x :
        IF x.threw \/ x.cams[n].orbitter = <<>> THEN x
        ELSE With(OrbitterDispose(x, n), LAMBDA d :
                 IF d.threw THEN d ELSE [d EXCEPT !.cams[n].orbitter = <<>>]))

\* ThreeCamera.disposeControls
DisposeControls(r, n) == DisposeOrbitter(DisposeOsc(r, n), n)

\* ThreeCamera.disposeCamera
DisposeCamera(r, n) ==
    With(r, LAMBDA x :
        IF x.threw THEN x
        ELSE IF HasCamera(x.cams[n])
             THEN Log([x EXCEPT !.cams[n]._camera = <<>>], Call("disposeCamera", n, 0, 0))
             ELSE x)

\* ThreeCamera.createCamera: `type` and `options` are always defined here.
CreateCamera(r, n) ==
    With(r, LAMBDA x :
        IF x.threw THEN x
        ELSE Log([x EXCEPT !.cams[n]._camera =
                      <<BackendCamera(x.cams[n].type, x.cams[n].options)>>],
                 Call("createCamera", n, 0, 0)))

\* ThreeCamera.updateOptions
UpdateOptions(r, n) ==
    With(r, LAMBDA x :
        IF x.threw THEN x
        ELSE IF ~HasCamera(x.cams[n]) THEN Throw(x)
        ELSE Log([x EXCEPT !.cams[n]._camera[1].options = x.cams[n].options],
                 Call("updateProjectionMatrix", n, 0, 0)))

\* ThreeCamera.updateDirection
UpdateDirection(r, n) ==
    With(r, LAMBDA x :
        IF x.threw THEN x
        ELSE IF ~HasCamera(x.cams[n]) THEN Throw(x)
        ELSE Log(Log([x EXCEPT !.cams[n]._camera[1].target = <<x.cams[n].lookAt>>],
                     Call("lookAt", n, 0, 0)),
                 Call("updateProjectionMatrix", n, 0, 0)))

\* ThreeCamera.updatePosition
UpdatePosition(r, n) ==
    With(r, LAMBDA x :
        IF x.threw THEN x
        ELSE IF ~HasCamera(x.cams[n]) THEN Throw(x)
        ELSE UpdateDirection(
                 Log([x EXCEPT !.cams[n]._camera[1].position = x.cams[n].position],
                     Call("position.set", n, 0, 0)), n))

\* ThreeCamera.updateZoom
UpdateZoom(r, n) ==
    With(r, LAMBDA x :
        IF x.threw THEN x
        ELSE IF ~HasCamera(x.cams[n]) THEN Throw(x)
        ELSE Log([x EXCEPT !.cams[n]._camera[1].zoom = x.cams[n].zoom],
                 Call("updateProjectionMatrix", n, 0, 0)))

\* new ThreeCameraOSCController( camera): a camera that is not of type
\* `perspective` aborts the initialization before the channel is opened.
OscConstruct(r, n) ==
    With(r, LAMBDA x :
        IF x.threw THEN x
        ELSE IF x.cams[n].type # "perspective"
             THEN Log([x EXCEPT !.cams[n].osc = <<[bound |-> TRUE, channel |-> "none"]>>],
                      Call("console.error", n, 0, 0))
             ELSE Log([x EXCEPT !.cams[n].osc = <<[bound |-> TRUE, channel |-> "open"]>>],
                      Call("osc.open", n, 0, 0)))

\* new ThreeCameraOrbitController( camera)
OrbitterConstruct(r, n) ==
    With(r, LAMBDA x :
        IF x.threw THEN x
        ELSE Log([x EXCEPT !.cams[n].orbitter = <<[bound |-> TRUE]>>],
                 Call("orbitter.new", n, 0, 0)))

Includes(seq, e) == \E i \in 1..Len(seq) : seq[i] = e

\* The constructions of updateControls, after disposeControls.
AttachControls(r, n) ==
    With(r, LAMBDA x :
        With(IF ~x.threw /\ Includes(x.cams[n]._controls, "osc")
             THEN OscConstruct(x, n) ELSE x,
             LAMBDA y : IF ~y.threw /\ Includes(y.cams[n]._controls, "orbitter")
                        THEN OrbitterConstruct(y, n) ELSE y))

\* ThreeCamera.updateControls
UpdateControls(r, n) == AttachControls(DisposeControls(r, n), n)

\* The first statement of `updated()`: the branch on `type` and `options`.
UpdatedType(r, n, changed, oldType) ==
    With(r, LAMBDA x :
        IF "type" \in changed
        THEN IF oldType # x.cams[n].type
             THEN CreateCamera(DisposeCamera(DisposeControls(x, n), n), n)
             ELSE x
        ELSE IF "options" \in changed THEN UpdateOptions(x, n) ELSE x)

\* The second statement: the branch on `position` and `lookAt`.
UpdatedPosition(r, n, changed) ==
    With(r, LAMBDA x :
        IF "position" \in changed THEN UpdatePosition(x, n)
        ELSE IF "lookAt" \in changed THEN UpdateDirection(x, n)
        ELSE x)

\* The third statement: `zoom`.
UpdatedZoom(r, n, changed) ==
    With(r, LAMBDA x : IF "zoom" \in changed THEN UpdateZoom(x, n) ELSE x)

\* The fourth statement: `controls`.
UpdatedControls(r, n, changed) ==
    With(r, LAMBDA x : IF "controls" \in changed THEN UpdateControls(x, n) ELSE x)

\* ThreeCamera.updated( changedProperties): `changed` holds the names of
\* the changed properties and `oldType` the previous value of `type`.
CameraUpdated(r, n, changed, oldType) ==
    UpdatedControls(
        UpdatedZoom(
            UpdatedPosition(
                UpdatedType(r, n, changed, oldType), n, changed), n, changed), n, changed)

\* ThreeCamera.updateAspectRatio: the right-hand side
\* `this.options.aspect = ratio` is evaluated before the assignment to
\* `this._camera.aspect` fails on a missing backend camera.
UpdateAspectRatio(r, n, ratio) ==
    With(r, LAMBDA x :
        IF x.threw THEN x
        ELSE IF ~HasCamera(x.cams[n])
             THEN Throw(Log([x EXCEPT !.cams[n].options.aspect = ratio],
                            Call("updateAspectRatio", n, ratio[1], ratio[2])))
             ELSE Log([x EXCEPT !.cams[n].options.aspect = ratio,
                                !.cams[n]._camera[1].options.aspect = ratio],
                      Call("updateAspectRatio", n, ratio[1], ratio[2])))

\* Lit-Element's update of camera n: `updated()` receives the changed
\* properties, which are cleared whether or not it raises.
CameraPerformUpdate(r, n) ==
    With(r, LAMBDA x :
        With(CameraUpdated(x, n, x.cams[n].changed, x.cams[n].oldType), LAMBDA y :
            [y EXCEPT !.cams[n].changed = {}, !.cams[n].oldType = y.cams[n].type]))

\* ThreeCamera.step: forwards to the orbit controller, when attached.
CameraStep(r, n, time, delta) ==
    With(r, LAMBDA x :
        IF x.threw THEN x
        ELSE IF x.cams[n].orbitter # <<>>
             THEN Log(Log(x, Call("camera.step", n, time, delta)),
                      Call("orbitter.step", n, time, delta))
             ELSE Log(x, Call("camera.step", n, time, delta)))

\* -------------------------------------------------------- <three-scene>

\* The element after its constructor: no backend scene, the `id` assigned
\* by the constructor waiting for the first update, and no child element.
\* `children` is the element's HTMLCollection in document order; a child is
\* [elt, object], `object` telling whether it is `instanceof ThreeObject`.
NewScene == [mounted |-> FALSE, _scene |-> <<>>, changed |-> TRUE, children |-> <<>>]

\* Largest number of child elements of a scene.
MaxChildren == 2

\* The child element k of scene s, as the receiver of a call.
ObjectRef(s, k) == s * (MaxChildren + 1) + k

\* The loop of ThreeScene.step over `this.children`, from child i on.
RECURSIVE ForEachChildStep(_, _, _, _, _, _)
ForEachChildStep(r, s, children, i, time, delta) ==
    IF i > Len(children) THEN r
    ELSE ForEachChildStep(
             IF children[i].object
             THEN Log(r, Call("object.step", ObjectRef(s, children[i].elt), time, delta))
             ELSE r,
             s, children, i + 1, time, delta)

\* ThreeScene.step of scene s with the given children.
SceneStep(r, s, children, time, delta) ==
    ForEachChildStep(Log(r, Call("scene.step", s, time, delta)), s, children, 1, time, delta)

\* ThreeScene.updated: disposeScene then createScene.
SceneUpdated(sc) == [sc EXCEPT !._scene = <<[objects |-> {}]>>, !.changed = FALSE]

\* ThreeScene.disposeScene
DisposeScene(sc) == [sc EXCEPT !._scene = <<>>]

\* ------------------------------------------------------- <three-object>

\* The object elements of the document.
NumObjects == 2

ObjectNodes == 1..NumObjects

\* ThreeObject itself and its subclass ThreeForceGraph.
ObjectKinds == {"three-object", "three-force-graph"}

\* An object element that has not been created yet; with its kind set it
\* is the element after the constructor of ThreeObject.
NoObject ==
    [ kind          |-> "none",
      mounted       |-> FALSE,
      _sceneElement |-> Undefined,
      inits         |-> 0,
      _group        |-> 0,
      groupChildren |-> {},
      __disposables |-> <<>>,
      created       |-> {},
      serial        |-> 0,
      timers        |-> {} ]

\* The ambient light that the constructor of the force graph o creates.
LightOf(o) == [of |-> o, part |-> "light", n |-> 0]

\* The progress of a handler of an object element: the object and scene
\* records, the calls made so far and whether an exception has ended it.
ORun(os, scs, cs, threw) == [objs |-> os, scenes |-> scs, calls |-> cs, threw |-> threw]

\* `this.scene`, the getter of ThreeObject: the backend scene of the bound
\* scene element, as <<>> when there is none.
SceneOf(r, o) ==
    IF r.objs[o]._sceneElement = Undefined THEN <<>>
    ELSE r.scenes[r.objs[o]._sceneElement]._scene

\* A backend object made by the force graph o: `part` is its class and n
\* tells apart the objects of one class.
Backend(o, part, n) == [of |-> o, part |-> part, n |-> n]

\* The element after the constructor of ThreeForceGraph: no group, and the
\* ambient light made by initLight() in the list of disposables.
NewForceGraph(o) ==
    [NoObject EXCEPT !.kind = "three-force-graph", !.__disposables = << LightOf(o) >>]

\* `new X( ...)` in addNode and addLink: obj joins the objects made so far.
Create(r, o, obj) == [r EXCEPT !.objs[o].created = @ \cup {obj}]

\* ThreeForceGraph.disposable
Disposable(r, o, obj) == [r EXCEPT !.objs[o].__disposables = Append(@, obj)]

\* `this._group.add( obj)`: a TypeError while `_group` is null.
GroupAdd(r, o, obj) ==
    IF r.objs[o]._group = 0 THEN Throw(r)
    ELSE Log([r EXCEPT !.objs[o].groupChildren = @ \cup {obj}], Call("group.add", o, obj.n, 0))

\* A variant of addNode that does not hand the mesh to disposable().
AddNodeMeshNotRegistered(r, o) ==
    With([r EXCEPT !.objs[o].serial = @ + 1], LAMBDA a :
    With(a.objs[o].serial, LAMBDA n :
        GroupAdd(Create(Disposable(Create(Disposable(Create(a,
                     o, Backend(o, "sphere-geometry", n)),
                     o, Backend(o, "sphere-geometry", n)),
                     o, Backend(o, "sphere-material", n)),
                     o, Backend(o, "sphere-material", n)),
                     o, Backend(o, "mesh", n)),
                 o, Backend(o, "mesh", n))))

\* ThreeForceGraph.addNode: a geometry, a material and a mesh are made, each
\* handed to disposable() at once, and the mesh is added to the group.
AddNode(r, o) ==
    With([r EXCEPT !.objs[o].serial = @ + 1], LAMBDA a :
    With(a.objs[o].serial, LAMBDA n :
        GroupAdd(Disposable(Create(Disposable(Create(Disposable(Create(a,
                     o, Backend(o, "sphere-geometry", n)),
                     o, Backend(o, "sphere-geometry", n)),
                     o, Backend(o, "sphere-material", n)),
                     o, Backend(o, "sphere-material", n)),
                     o, Backend(o, "mesh", n)),
                     o, Backend(o, "mesh", n)),
                 o, Backend(o, "mesh", n))))

\* ThreeForceGraph.addLink: a material, a geometry and a line are made, each
\* handed to disposable() at once, and the line is added to the group.
AddLink(r, o) ==
    With([r EXCEPT !.objs[o].serial = @ + 1], LAMBDA a :
    With(a.objs[o].serial, LAMBDA n :
        GroupAdd(Disposable(Create(Disposable(Create(Disposable(Create(a,
                     o, Backend(o, "line-material", n)),
                     o, Backend(o, "line-material", n)),
                     o, Backend(o, "line-geometry", n)),
                     o, Backend(o, "line-geometry", n)),
                     o, Backend(o, "line", n)),
                     o, Backend(o, "line", n)),
                 o, Backend(o, "line", n))))

\* ThreeForceGraph.refresh with the default (empty) `data` and `generate`
\* 0: clear() takes the group out of `this.scene`, a new and empty group is
\* made, initGraph() adds the central node, and the group is added to the
\* scene.  A TypeError when `this.scene` is undefined.
Refresh(r, o) ==
    IF SceneOf(r, o) = <<>> THEN Throw(r)
    ELSE With(Log([r EXCEPT !.scenes[r.objs[o]._sceneElement]._scene[1].objects =
                               @ \ {Backend(o, "group", r.objs[o]._group)},
                            !.objs[o]._group = r.objs[o].serial + 1,
                            !.objs[o].groupChildren = {}],
                  Call("scene.remove", o, 0, 0)), LAMBDA c :
         With(AddNode(c, o), LAMBDA x :
             IF x.threw THEN x
             ELSE Log([x EXCEPT !.scenes[x.objs[o]._sceneElement]._scene[1].objects =
                                   @ \cup {Backend(o, "group", x.objs[o]._group)}],
                      Call("scene.add", o, 0, 0))))

\* ThreeForceGraph.refresh with `generate` set to `total`: as Refresh, and
\* _generateNodesAndLinks starts an interval timer whose callback counts in
\* a variable of its own.  The timer is recorded with the group that
\* refresh() made.
RefreshGenerate(r, o, total) ==
    With(Refresh(r, o), LAMBDA x :
        IF x.threw THEN x
        ELSE Log([x EXCEPT !.objs[o].timers =
                              @ \cup {[group |-> x.objs[o]._group, i |-> 0, total |-> total]}],
                 Call("setInterval", o, total, 0)))

\* The callback of the interval timer t of the force graph o: it counts,
\* adds a node and its link to the central node, and clears the timer when
\* the count has reached the total.
GenerationTimer(r, o, t) ==
    With(AddLink(AddNode([r EXCEPT !.objs[o].timers = @ \ {t}], o), o), LAMBDA x :
        IF x.threw \/ t.i + 1 < t.total
        THEN [x EXCEPT !.objs[o].timers = @ \cup {[t EXCEPT !.i = @ + 1]}]
        ELSE Log(x, Call("clearInterval", o, 0, 0)))

\* ThreeForceGraph.init: the light is added to `this.scene`.
ForceGraphInit(r, o) ==
    IF SceneOf(r, o) = <<>> THEN Throw(r)
    ELSE Log([r EXCEPT !.scenes[r.objs[o]._sceneElement]._scene[1].objects =
                          @ \cup {LightOf(o)}],
             Call("scene.add", o, 0, 0))

\* ThreeForceGraph.dispose: `_earth` (undefined) and `_light` are removed
\* from `this.scene`, and then `this._earth.geometry` is written, where
\* `_earth` is undefined because no statement ever assigns it.
ForceGraphDispose(r, o) ==
    IF SceneOf(r, o) = <<>> THEN Throw(r)
    ELSE Throw(Log([r EXCEPT !.scenes[r.objs[o]._sceneElement]._scene[1].objects =
                                @ \ {LightOf(o)}],
                   Call("scene.remove", o, 0, 0)))

\* The two globes and the light that the constructor of the planet o
\* creates.
PlanetParts(o) == {Backend(o, "earthGlobe", 0), Backend(o, "moonGlobe", 0), LightOf(o)}

\* The element after the constructor of ThreePlanet.
NewPlanet(o) == [NoObject EXCEPT !.kind = "three-planet", !.created = PlanetParts(o)]

\* ThreePlanet.init: the globes and the light are added to `this.scene`
\* (three.js adds nothing for a part that dispose() has set to undefined).
PlanetInit(r, o) ==
    IF SceneOf(r, o) = <<>> THEN Throw(r)
    ELSE Log([r EXCEPT !.scenes[r.objs[o]._sceneElement]._scene[1].objects =
                          @ \cup r.objs[o].created],
             Call("scene.add", o, 0, 0))

\* ThreePlanet.dispose: the earth globe and the light are removed from
\* `this.scene`, then the fields of the globes are cleared, which raises
\* when an earlier dispose() has set the globes to undefined.
PlanetDispose(r, o) ==
    IF SceneOf(r, o) = <<>> THEN Throw(r)
    ELSE With(Log([r EXCEPT !.scenes[r.objs[o]._sceneElement]._scene[1].objects =
                               @ \ {Backend(o, "earthGlobe", 0), LightOf(o)}],
                  Call("scene.remove", o, 0, 0)), LAMBDA x :
             IF x.objs[o].created = {} THEN Throw(x)
             ELSE [x EXCEPT !.objs[o].created = {}])

\* init() of object o, of its class.
ObjectInit(r, o) ==
    With(Log([r EXCEPT !.objs[o].inits = @ + 1], Call("object.init", o, 0, 0)), LAMBDA x :
        IF x.objs[o].kind = "three-force-graph" THEN ForceGraphInit(x, o)
        ELSE IF x.objs[o].kind = "three-planet" THEN PlanetInit(x, o)
        ELSE x)

\* dispose() of object o, of its class.
ObjectDispose(r, o) ==
    With(Log(r, Call("object.dispose", o, 0, 0)), LAMBDA x :
        IF x.objs[o].kind = "three-force-graph" THEN ForceGraphDispose(x, o)
        ELSE IF x.objs[o].kind = "three-planet" THEN PlanetDispose(x, o)
        ELSE x)

\* ThreeObject.connectedCallback of object o below scene element `parent`,
\* Null when `closest( "three-scene")` finds no scene element.
ObjectConnectedCallback(r, o, parent) ==
    With([r EXCEPT !.objs[o].mounted = TRUE], LAMBDA x :
        IF parent = Null
        THEN [x EXCEPT !.calls = Append(@, Call("Error", 0, 0, 0)), !.threw = TRUE]
        ELSE ObjectInit([x EXCEPT !.objs[o]._sceneElement = parent], o))

\* A variant of disconnectedCallback that clears the binding before it
\* calls dispose().
ObjectDisconnectedCallbackUnbindFirst(r, o) ==
    ObjectDispose(Log([r EXCEPT !.objs[o].mounted = FALSE,
                                !.objs[o]._sceneElement = Undefined],
                      Call("object.unbind", o, 0, 0)), o)

\* ThreeObject.disconnectedCallback of object o.
ObjectDisconnectedCallback(r, o) ==
    With(ObjectDispose([r EXCEPT !.objs[o].mounted = FALSE], o), LAMBDA x :
        IF x.threw THEN x
        ELSE Log([x EXCEPT !.objs[o]._sceneElement = Undefined],
                 Call("object.unbind", o, 0, 0)))

\* ---------------------------------------------------------- <three-app>

\* Largest client width of the canvas; a width of 0 is a canvas that is
\* not laid out (0 x 0), every other width has height 1.
MaxWidth == 2

DisplaySizes == {[width |-> w, height |-> IF w = 0 THEN 0 ELSE 1] : w \in 0..MaxWidth}

\* The size of the drawing buffer of a WebGLRenderer created on a fresh
\* <canvas> (the canvas' own width and height).
InitialBufferSize == [width |-> 300, height |-> 150]

\* width / height, as the pair <<width, height>>
Ratio(size) == <<size.width, size.height>>

\* `if( ratio)`: NaN (0/0), 0 and undefined are falsy.
Truthy(ratio) == ratio[1] # 0

\* The value of 1000 / 0 in IEEE arithmetic, above every time of the model.
Infinity == 1000000

\* Default.fps
DefaultFps == 60

VARIABLES
    cams,             \* camera element -> its state
    scenes,           \* scene element -> its state
    _cameras,         \* Map of registered cameras
    _scenes,          \* Map of registered scenes
    _activeCamera,    \* camera element or Undefined
    _activeScene,     \* scene element or Undefined
    _initialized,
    _canvas,          \* TRUE once `init()` holds the <canvas>
    clientSize,       \* clientWidth and clientHeight of the <canvas>
    rendererSize,     \* size of the renderer's drawing buffer
    _fps,
    _interval,
    _time,
    _lastTime,
    _intervalActual,
    _fpsActual,
    raf,              \* callbacks waiting in window.requestAnimationFrame
    op,               \* the handler that ran last, with its arguments
    calls,            \* the calls it made, in order
    threw,            \* whether it raised a TypeError
    objs,             \* object element -> its state
    isConnected       \* whether the app element is in the document

vars == << cams, scenes, _cameras, _scenes, _activeCamera, _activeScene,
           _initialized, _canvas, clientSize, rendererSize, _fps, _interval,
           _time, _lastTime, _intervalActual, _fpsActual, raf, op, calls, threw,
           objs, isConnected >>

cameraVars == << cams, _cameras, _activeCamera >>

sceneVars == << scenes, _scenes, _activeScene >>

surfaceVars == << _initialized, _canvas, clientSize, rendererSize >>

timingVars == << _fps, _interval, _time, _lastTime, _intervalActual, _fpsActual, raf >>

Op(name, a, b) == [name |-> name, a |-> a, b |-> b]

Raised(cs) == \E i \in 1..Len(cs) : cs[i] = TypeError

\* A listener's exception is reported by dispatchEvent and does not reach
\* the element that dispatched the event.
Contained(r) == [r EXCEPT !.threw = FALSE]

\* ThreeApp.getDisplaySize().ratio; <<0, 0>> stands for `undefined` too.
DisplayRatio == IF _canvas THEN Ratio(clientSize) ELSE <<0, 0>>

\* A variant of the `camera` setter that defaults to the last camera.
CameraSetterDefaultLast(reg, active, newCameraRefId) ==
    IF newCameraRefId = Null \/ MapGet(reg, newCameraRefId) = Undefined
    THEN (IF Len(reg) = 0 THEN Undefined ELSE reg[Len(reg)].elt)
    ELSE MapGet(reg, newCameraRefId)

\* A variant of the `camera` setter without the default.
CameraSetterNoDefault(reg, active, newCameraRefId) ==
    IF newCameraRefId # Null THEN MapGet(reg, newCameraRefId) ELSE active

\* ThreeApp `set camera`: the new value of `_activeCamera`.
CameraSetter(reg, active, newCameraRefId) ==
    IF newCameraRefId = Null \/ MapGet(reg, newCameraRefId) = Undefined
    THEN MapFirst(reg)
    ELSE MapGet(reg, newCameraRefId)

\* ThreeApp `set scene`: the new value of `_activeScene`.
SceneSetter(reg, active, newSceneId) ==
    IF newSceneId = Null \/ MapGet(reg, newSceneId) = Undefined
    THEN MapFirst(reg)
    ELSE MapGet(reg, newSceneId)

\* ThreeApp `get camera`
CameraGetter(cs, active) == IF active # Undefined THEN cs[active].id ELSE Undefined

\* ThreeApp `get scene`
SceneGetter(active) == IF active # Undefined THEN SceneIdOf(active) ELSE Undefined

\* The state of the camera registry while a handler runs.
Reg(reg, active, run) == [reg |-> reg, active |-> active, run |-> run]

\* A variant of registerCamera that always makes the new camera active.
RegisterCameraAlwaysActive(g, n, ratio) ==
    With(g, LAMBDA x :
        Reg(MapSet(x.reg, x.run.cams[n].id, n), n,
            IF Truthy(ratio) THEN Contained(UpdateAspectRatio(x.run, n, ratio)) ELSE x.run))

\* ThreeApp.registerCamera, as the listener of `camera-connected`.
RegisterCamera(g, n, ratio) ==
    With(g, LAMBDA x :
        With(MapSet(x.reg, x.run.cams[n].id, n), LAMBDA reg1 :
            Reg(reg1,
                IF CameraGetter(x.run.cams, x.active) = Undefined
                THEN CameraSetter(reg1, x.active, x.run.cams[n].id)
                ELSE x.active,
                IF Truthy(ratio)
                THEN Contained(UpdateAspectRatio(x.run, n, ratio))
                ELSE x.run)))

\* ThreeApp.deregisterCamera, as the listener of `camera-disconnected`.
DeregisterCamera(g, n) ==
    With(g, LAMBDA x :
        With(MapDelete(x.reg, x.run.cams[n].id), LAMBDA reg1 :
            Reg(reg1, CameraSetter(reg1, x.active, Null),
                Log(x.run, Call("app.deregisterCamera", n, 0, 0)))))

\* ThreeApp.registerScene
RegisterScene(g, s) ==
    With(g, LAMBDA x :
        With(MapSet(x.reg, SceneIdOf(s), s), LAMBDA reg1 :
            [reg |-> reg1,
             active |-> IF SceneGetter(x.active) = Undefined
                        THEN SceneSetter(reg1, x.active, SceneIdOf(s))
                        ELSE x.active]))

\* ThreeApp.deregisterScene
DeregisterScene(g, s) ==
    With(g, LAMBDA x :
        With(MapDelete(x.reg, SceneIdOf(s)), LAMBDA reg1 :
            [reg |-> reg1, active |-> SceneSetter(reg1, x.active, Null)]))

\* `this._cameras.forEach( camera => camera.updateAspectRatio( ratio))`,
\* from entry i on.
RECURSIVE ForEachUpdateAspectRatio(_, _, _, _)
ForEachUpdateAspectRatio(r, reg, i, ratio) ==
    IF i > Len(reg) THEN r
    ELSE ForEachUpdateAspectRatio(UpdateAspectRatio(r, reg[i].elt, ratio), reg, i + 1, ratio)

\* A variant of needsResize that always answers yes.
NeedsResizeAlways(size, bufferSize) == TRUE

\* ThreeApp.needsResize
NeedsResize(size, bufferSize) ==
    bufferSize.width # size.width \/ bufferSize.height # size.height

\* ThreeApp.resize: the run after it and the size of the drawing buffer.
Resize(r, reg, size, bufferSize) ==
    With(ForEachUpdateAspectRatio(r, reg, 1, Ratio(size)), LAMBDA x :
        IF x.threw THEN [run |-> x, size |-> bufferSize]
        ELSE [run |-> Log(x, Call("setSize", size.width, size.height, 0)), size |-> size])

\* `this._scenes.forEach(( elt) => elt.step( time, delta))`, from entry i on.
RECURSIVE ForEachSceneStep(_, _, _, _, _)
ForEachSceneStep(r, reg, i, time, delta) ==
    IF i > Len(reg) THEN r
    ELSE ForEachSceneStep(
             With(r, LAMBDA x : IF x.threw THEN x
                                ELSE SceneStep(x, reg[i].elt, scenes[reg[i].elt].children,
                                               time, delta)),
             reg, i + 1, time, delta)

\* `this._cameras.forEach(( elt) => elt.step( time, delta))`, from entry i on.
RECURSIVE ForEachCameraStep(_, _, _, _, _)
ForEachCameraStep(r, reg, i, time, delta) ==
    IF i > Len(reg) THEN r
    ELSE ForEachCameraStep(CameraStep(r, reg[i].elt, time, delta), reg, i + 1, time, delta)

\* `this._renderer.render( this._activeScene.scene, this._activeCamera.camera)`:
\* reading a property of `undefined` raises.
Render(r, activeScene, activeCamera) ==
    With(r, LAMBDA x :
        IF x.threw THEN x
        ELSE IF activeScene = Undefined \/ activeCamera = Undefined THEN Throw(x)
        ELSE Log(x, Call("render", activeScene, activeCamera, 0)))

\* Math.ceil( 1000 / delta)
FpsActualOf(delta) == IF delta = 0 THEN Infinity ELSE (1000 + delta - 1) \div delta

\* ThreeApp.step, after updateTimings: the run and the buffer size.
Step(r, time, delta) ==
    With(IF NeedsResize(clientSize, rendererSize)
         THEN Resize(r, _cameras, clientSize, rendererSize)
         ELSE [run |-> r, size |-> rendererSize],
         LAMBDA z :
            [run |-> Render(ForEachCameraStep(
                                ForEachSceneStep(z.run, _scenes, 1, time, delta),
                                _cameras, 1, time, delta),
                            _activeScene, _activeCamera),
             size |-> z.size])

\* A variant of the interval that rounds up.
IntervalOfCeil(fps) == IF fps = 0 THEN Infinity ELSE (1000 + fps - 1) \div fps

\* Math.floor( 1000 / this._fps)
IntervalOf(fps) == IF fps = 0 THEN Infinity ELSE 1000 \div fps

\* ThreeApp `set fps`, the new `_fps`: the value arrives in tenths, null
\* when the attribute is removed.
FpsOf(newVal) == IF newVal = Null THEN DefaultFps ELSE newVal \div 10

\* `delta >= this._interval`
IntervalElapsed(delta, interval) == delta >= interval

\* ------------------------------------------------------------- actions

\* The handler `name` of the app, a camera or a scene ended with the calls
\* `done`: it touches no object element and leaves the app where it is.
Done(name, a, b, done) ==
    /\ op' = Op(name, a, b)
    /\ calls' = done
    /\ threw' = Raised(done)
    /\ UNCHANGED << objs, isConnected >>

Start == Run(cams, <<>>, FALSE)

\* ThreeCamera.connectedCallback: the element is attached below the app.
CameraConnected(n) ==
    /\ ~cams[n].mounted
    /\ \E g \in {RegisterCamera(
                    Reg(_cameras, _activeCamera,
                        Run([cams EXCEPT ![n].mounted = TRUE, ![n].enabled = TRUE],
                            <<>>, FALSE)),
                    n, DisplayRatio)} :
          /\ cams' = g.run.cams
          /\ _cameras' = g.reg
          /\ _activeCamera' = g.active
          /\ Done("camera.connectedCallback", n, 0, g.run.calls)
    /\ UNCHANGED << sceneVars, surfaceVars, timingVars >>

\* A variant of disconnectedCallback that disposes the controllers before it
\* dispatches `camera-disconnected`.
CameraDetachedControlsFirst(n, reached) ==
    /\ cams[n].mounted
    /\ \E r0 \in {DisposeControls(Run([cams EXCEPT ![n].mounted = FALSE], <<>>, FALSE), n)} :
       \E g \in {IF reached /\ ~r0.threw
                  THEN DeregisterCamera(Reg(_cameras, _activeCamera, r0), n)
                  ELSE Reg(_cameras, _activeCamera, r0)} :
          \E r1 \in {DisposeCamera(g.run, n)} :
             /\ cams' = r1.cams
             /\ _cameras' = g.reg
             /\ _activeCamera' = g.active
             /\ Done("camera.disconnectedCallback", n,
                     IF _activeCamera = n THEN 1 ELSE 0, r1.calls)
    /\ UNCHANGED << sceneVars, surfaceVars, timingVars >>

\* ThreeCamera.disconnectedCallback.  The callback runs when the element has
\* left the document, and `camera-disconnected` is dispatched on the element
\* itself: the listener of the app is on its propagation path (`reached`)
\* only when the element left the document inside a subtree that still
\* holds the app; an element removed from below the app has no ancestor any
\* more and the event ends on it.  `op.b` is 1 when the element was the
\* active camera.
CameraDetached(n, reached) ==
    /\ cams[n].mounted
    /\ \E g0 \in {Reg(_cameras, _activeCamera,
                      Run([cams EXCEPT ![n].mounted = FALSE], <<>>, FALSE))} :
       \E g \in {IF reached THEN DeregisterCamera(g0, n) ELSE g0} :
          \E r1 \in {DisposeCamera(DisposeControls(g.run, n), n)} :
             /\ cams' = r1.cams
             /\ _cameras' = g.reg
             /\ _activeCamera' = g.active
             /\ Done("camera.disconnectedCallback", n,
                     IF _activeCamera = n THEN 1 ELSE 0, r1.calls)
    /\ UNCHANGED << sceneVars, surfaceVars, timingVars >>

\* The camera leaves the document together with the app.
CameraDisconnected(n) == CameraDetached(n, TRUE)

\* The camera is removed from below the app.
CameraRemoved(n) == CameraDetached(n, FALSE)

\* Lit-Element runs the pending update of camera n.
CameraUpdate(n) ==
    /\ cams[n].enabled
    /\ cams[n].changed # {}
    /\ \E r1 \in {CameraPerformUpdate(Start, n)} :
          /\ cams' = r1.cams
          /\ Done("camera.updated", n, 0, r1.calls)
    /\ UNCHANGED << _cameras, _activeCamera, sceneVars, surfaceVars, timingVars >>

\* ThreeScene.connectedCallback
SceneConnected(s) ==
    /\ ~scenes[s].mounted
    /\ \E g \in {RegisterScene([reg |-> _scenes, active |-> _activeScene], s)} :
          /\ _scenes' = g.reg
          /\ _activeScene' = g.active
    /\ scenes' = [scenes EXCEPT ![s].mounted = TRUE]
    /\ Done("scene.connectedCallback", s, 0, <<>>)
    /\ UNCHANGED << cameraVars, surfaceVars, timingVars >>

\* ThreeScene.disconnectedCallback: deregisterScene(), then disposeScene().
\* `scene-disconnected` reaches the listener of the app under the condition
\* given for the camera.
SceneDetached(s, reached) ==
    /\ scenes[s].mounted
    /\ \E g0 \in {[reg |-> _scenes, active |-> _activeScene]} :
       \E g \in {IF reached THEN DeregisterScene(g0, s) ELSE g0} :
          /\ _scenes' = g.reg
          /\ _activeScene' = g.active
    /\ scenes' = [scenes EXCEPT ![s] = DisposeScene([@ EXCEPT !.mounted = FALSE])]
    /\ Done("scene.disconnectedCallback", s, 0,
            (IF reached THEN << Call("app.deregisterScene", s, 0, 0) >> ELSE <<>>)
            \o (IF scenes[s]._scene # <<>> THEN << Call("disposeScene", s, 0, 0) >> ELSE <<>>))
    /\ UNCHANGED << cameraVars, surfaceVars, timingVars >>

\* The scene leaves the document together with the app.
SceneDisconnected(s) == SceneDetached(s, TRUE)

\* The scene is removed from below the app.
SceneRemoved(s) == SceneDetached(s, FALSE)

\* Lit-Element runs the pending update of scene s.
SceneUpdate(s) ==
    /\ scenes[s].mounted
    /\ scenes[s].changed
    /\ scenes' = [scenes EXCEPT ![s] = SceneUpdated(@)]
    /\ Done("scene.updated", s, 0, <<>>)
    /\ UNCHANGED << _scenes, _activeScene, cameraVars, surfaceVars, timingVars >>

\* A write to the `camera` property of the app (or its attribute).
SetCamera(newCameraRefId) ==
    /\ _activeCamera' = CameraSetter(_cameras, _activeCamera, newCameraRefId)
    /\ Done("set camera", newCameraRefId, 0, <<>>)
    /\ UNCHANGED << cams, _cameras, sceneVars, surfaceVars, timingVars >>

\* A write to the `scene` property of the app (or its attribute).
SetScene(newSceneId) ==
    /\ _activeScene' = SceneSetter(_scenes, _activeScene, newSceneId)
    /\ Done("set scene", newSceneId, 0, <<>>)
    /\ UNCHANGED << scenes, _scenes, cameraVars, surfaceVars, timingVars >>

\* `cameraAndSceneElements.forEach(( elt) => elt.init())` over the camera
\* children, from element n on: each one dispatches `camera-connected`.
RECURSIVE InitCameras(_, _, _)
InitCameras(g, n, ratio) ==
    IF n > NumCameras THEN g
    ELSE InitCameras(
             With(g, LAMBDA x : IF x.run.cams[n].mounted
                                THEN RegisterCamera(x, n, ratio) ELSE x),
             n + 1, ratio)

\* The same over the scene children, from element s on.
RECURSIVE InitScenes(_, _)
InitScenes(g, s) ==
    IF s > NumScenes THEN g
    ELSE InitScenes(With(g, LAMBDA x : IF scenes[s].mounted THEN RegisterScene(x, s) ELSE x),
                    s + 1)

\* ThreeApp.firstUpdated: init() then start().  An exception raised by
\* resize() ends init() before the children are initialized and before
\* the loop is started.
AppFirstUpdated ==
    /\ ~_canvas
    /\ _canvas' = TRUE
    /\ \E z \in {Resize(Start, _cameras, clientSize, InitialBufferSize)} :
          /\ rendererSize' = z.size
          /\ IF z.run.threw
             THEN /\ cams' = z.run.cams
                  /\ UNCHANGED << _cameras, _activeCamera, _scenes, _activeScene,
                                  _initialized, _lastTime, raf >>
                  /\ Done("firstUpdated", 0, 0, z.run.calls)
             ELSE \E g \in {InitCameras(Reg(_cameras, _activeCamera, z.run), 1,
                                        Ratio(clientSize))} :
                  \E h \in {InitScenes([reg |-> _scenes, active |-> _activeScene], 1)} :
                     /\ cams' = g.run.cams
                     /\ _cameras' = g.reg
                     /\ _activeCamera' = g.active
                     /\ _scenes' = h.reg
                     /\ _activeScene' = h.active
                     /\ _initialized' = TRUE
                     /\ _lastTime' = 0
                     /\ raf' = raf + 1
                     /\ Done("firstUpdated", 0, 0,
                             Append(g.run.calls, Call("requestAnimationFrame", 0, 0, 0)))
    /\ UNCHANGED << scenes, clientSize, _fps, _interval, _time, _intervalActual,
                    _fpsActual >>

\* Largest time stamp the browser passes to a frame callback.
MaxTime == 6

\* Lit-Element performs its updates in microtasks, which the browser runs
\* to the end before it calls the next frame callback.
MicrotasksDrained ==
    /\ \A n \in CameraNodes : cams[n].enabled => cams[n].changed = {}
    /\ \A s \in SceneNodes : scenes[s].mounted => ~scenes[s].changed

\* When the app element leaves the document its children leave with it,
\* and the browser calls their disconnectedCallback in the same task,
\* before the next frame callback.
ReactionsDrained ==
    isConnected \/ ( /\ \A n \in CameraNodes : ~cams[n].mounted
                     /\ \A s \in SceneNodes : ~scenes[s].mounted )

\* The browser runs a callback of requestAnimationFrame: ThreeApp.tick.
Tick(time) ==
    /\ raf > 0
    /\ MicrotasksDrained
    /\ ReactionsDrained
    /\ time > _time
    /\ _time' = time
    /\ \E delta \in {time - _lastTime} :
          IF IntervalElapsed(delta, _interval)
          THEN \E z \in {Step(Log(Start, Call("step", time, delta, 0)), time, delta)} :
                  /\ _intervalActual' = delta
                  /\ _fpsActual' = FpsActualOf(delta)
                  /\ cams' = z.run.cams
                  /\ rendererSize' = z.size
                  /\ IF z.run.threw
                     THEN /\ _lastTime' = _lastTime
                          /\ raf' = raf - 1
                          /\ Done("tick", time, delta, z.run.calls)
                     ELSE /\ _lastTime' = time
                          /\ raf' = raf
                          /\ Done("tick", time, delta,
                                  Append(z.run.calls, Call("requestAnimationFrame", 0, 0, 0)))
          ELSE /\ UNCHANGED << cams, rendererSize, _lastTime, _intervalActual,
                               _fpsActual, raf >>
               /\ Done("tick", time, delta, << Call("requestAnimationFrame", 0, 0, 0) >>)
    /\ UNCHANGED << _cameras, _activeCamera, sceneVars, _initialized, _canvas,
                    clientSize, _fps, _interval >>

\* A write to the `fps` property of the app (or its attribute).
SetFps(newVal) ==
    /\ _fps' = FpsOf(newVal)
    /\ _interval' = IntervalOf(FpsOf(newVal))
    /\ Done("set fps", newVal, 0, <<>>)
    /\ UNCHANGED << cameraVars, sceneVars, surfaceVars, _time, _lastTime,
                    _intervalActual, _fpsActual, raf >>

\* The layout gives the <canvas> another client size.
SurfaceResized(size) ==
    /\ size # clientSize
    /\ clientSize' = size
    /\ Done("surface resized", size.width, size.height, <<>>)
    /\ UNCHANGED << cameraVars, sceneVars, _initialized, _canvas, rendererSize,
                    timingVars >>

\* A call of the public method ThreeApp.resize().  `op.a` is 2 when the
\* handler that ran just before was resize() too, 1 otherwise.
ResizeCalled ==
    /\ _canvas
    /\ \E z \in {Resize(Start, _cameras, clientSize, rendererSize)} :
          /\ cams' = z.run.cams
          /\ rendererSize' = z.size
          /\ Done("resize", IF op.name = "resize" THEN 2 ELSE 1, 0, z.run.calls)
    /\ UNCHANGED << _cameras, _activeCamera, sceneVars, _initialized, _canvas,
                    clientSize, timingVars >>

\* A write to the `type` property of camera n (or its attribute): the
\* accessor generated by Lit-Element requests an update only when the value
\* differs, and remembers the previous value of the first change only.
\* `op.b` is 1 when the value written is the value the property has.
SetType(n, newVal) ==
    /\ cams' = IF cams[n].type = newVal THEN cams
               ELSE [cams EXCEPT ![n] =
                       [@ EXCEPT !.type = newVal,
                                 !.oldType = IF "type" \in cams[n].changed
                                             THEN @ ELSE cams[n].type,
                                 !.changed = @ \cup {"type"}]]
    /\ Done("set type", n, IF cams[n].type = newVal THEN 1 ELSE 0, <<>>)
    /\ UNCHANGED << _cameras, _activeCamera, sceneVars, surfaceVars, timingVars >>

\* Values written to the `options` property: each write is a new object.
OptionsValues == {DefaultOptions, [DefaultOptions EXCEPT !.fov = 600]}

\* A write to the `options` property of camera n.
SetOptions(n, newVal) ==
    /\ cams' = [cams EXCEPT ![n] = [@ EXCEPT !.options = newVal,
                                             !.changed = @ \cup {"options"}]]
    /\ Done("set options", n, 0, <<>>)
    /\ UNCHANGED << _cameras, _activeCamera, sceneVars, surfaceVars, timingVars >>

\* Default.controls
DefaultControls == <<>>

\* Values written to the `controls` property: null, or a string given as
\* the pieces that `split( " ")` cuts it into.
ControlsValues ==
    {[null |-> TRUE, pieces |-> <<>>]}
    \cup {[null |-> FALSE, pieces |-> p] :
             p \in {<<"">>, <<"osc">>, <<"orbitter">>, <<"osc", "", "orbitter">>}}

\* The array that `set controls` stores in `_controls`.
ControlsOf(newVal) ==
    IF newVal.null THEN DefaultControls
    ELSE SelectSeq(newVal.pieces, LAMBDA str : str # "")

\* A write to the `controls` property of camera n: the old value passed
\* to requestUpdate is the previous array, which never equals the string
\* the getter returns, so that every write requests an update.
SetControls(n, newVal) ==
    /\ cams' = [cams EXCEPT ![n] = [@ EXCEPT !._controls = ControlsOf(newVal),
                                             !.changed = @ \cup {"controls"}]]
    /\ Done("set controls", n, 0, <<>>)
    /\ UNCHANGED << _cameras, _activeCamera, sceneVars, surfaceVars, timingVars >>

\* Values written to the `position` property: each write is a new array.
PositionValues == {DefaultPosition, <<1, 2, 3>>}

\* A write to the `position` property of camera n.
SetPosition(n, newVal) ==
    /\ cams' = [cams EXCEPT ![n] = [@ EXCEPT !.position = newVal,
                                             !.changed = @ \cup {"position"}]]
    /\ Done("set position", n, 0, <<>>)
    /\ UNCHANGED << _cameras, _activeCamera, sceneVars, surfaceVars, timingVars >>

\* Values written to the `lookAt` property: each write is a new array.
LookAtValues == {DefaultLookAt, <<1, 1, 1>>}

\* A write to the `lookAt` property of camera n.
SetLookAt(n, newVal) ==
    /\ cams' = [cams EXCEPT ![n] = [@ EXCEPT !.lookAt = newVal,
                                             !.changed = @ \cup {"lookAt"}]]
    /\ Done("set lookAt", n, 0, <<>>)
    /\ UNCHANGED << _cameras, _activeCamera, sceneVars, surfaceVars, timingVars >>

\* A call of dispose() on the OSC controller of camera n by a holder of
\* the controller, which stays referenced by the camera.
ControllerDispose(n) ==
    /\ cams[n].osc # <<>>
    /\ \E r1 \in {OscDispose(Start, n)} :
          /\ cams' = r1.cams
          /\ Done("osc.dispose", n, 0, r1.calls)
    /\ UNCHANGED << _cameras, _activeCamera, sceneVars, surfaceVars, timingVars >>

\* ------------------------------------------------------ initial states

\* A camera that was in the document when the elements were defined: it is
\* connected and has run its first update, and its `camera-connected`
\* event found no listener.
StaticCamera ==
    CameraPerformUpdate(
        Run([n \in {1} |-> [NewCamera EXCEPT !.mounted = TRUE, !.enabled = TRUE]],
            <<>>, FALSE), 1).cams[1]

StaticScene == SceneUpdated([NewScene EXCEPT !.mounted = TRUE])

\* The ids of the camera elements: each element has an id of its own, or
\* the last element carries the id of the first.
CameraIds ==
    { [n \in CameraNodes |-> n],
      [n \in CameraNodes |-> IF n = NumCameras THEN 1 ELSE n] }

\* The app after its constructor.
InitApp ==
    /\ _cameras = <<>>
    /\ _scenes = <<>>
    /\ _activeCamera = Undefined
    /\ _activeScene = Undefined
    /\ _initialized = FALSE
    /\ _canvas = FALSE
    /\ rendererSize = InitialBufferSize
    /\ _fps = DefaultFps
    /\ _interval = IntervalOf(DefaultFps)
    /\ _time = Undefined
    /\ _lastTime = Undefined
    /\ _intervalActual = Undefined
    /\ _fpsActual = Undefined
    /\ raf = 0
    /\ op = Op("constructor", 0, 0)
    /\ calls = <<>>
    /\ threw = FALSE
    /\ objs = [o \in ObjectNodes |-> NoObject]
    /\ isConnected = TRUE

\* The camera elements: those of `static` were in the document from the
\* start, the others are created and attached later.
InitCams(nodes, ids) ==
    \E static \in SUBSET nodes :
        cams = [n \in CameraNodes |->
                  [(IF n \in static THEN StaticCamera ELSE NewCamera) EXCEPT !.id = ids[n]]]

\* ----------------------------------------- registry protocol (Spec)
\* The camera registry of the app under every order of connection, update
\* and disconnection of the camera elements and of writes to `camera`.

Init ==
    /\ InitApp
    /\ \E ids \in CameraIds : InitCams(CameraNodes, ids)
    /\ scenes = [s \in SceneNodes |-> NewScene]
    /\ clientSize = [width |-> MaxWidth, height |-> 1]

Next ==
    \/ \E n \in CameraNodes : CameraConnected(n)
    \/ \E n \in CameraNodes : CameraDisconnected(n)
    \/ \E n \in CameraNodes : CameraRemoved(n)
    \/ \E n \in CameraNodes : CameraUpdate(n)
    \/ \E id \in CameraRefIds : SetCamera(id)
    \/ AppFirstUpdated

Spec == Init /\ [][Next]_vars

\* C1: after every handler of the app, the active camera id is empty or a
\* key of the camera registry.
ActiveCameraIsRegistered ==
    CameraGetter(cams, _activeCamera) = Undefined
    \/ CameraGetter(cams, _activeCamera) \in MapKeys(_cameras)

\* A camera was disconnected, others remain and one of them is active.
ActiveCameraIsRegisteredWitness ==
    /\ op.name = "camera.disconnectedCallback"
    /\ Len(_cameras) >= 2
    /\ _activeCamera # Undefined

\* C2: when the active camera is deregistered and other cameras remain,
\* the first-inserted of them becomes active; and whenever the registry is
\* not empty there is an active camera.
ActiveCameraDefaultsToFirst ==
    /\ Len(_cameras) > 0 => _activeCamera # Undefined
    /\ (op.name = "camera.disconnectedCallback" /\ op.b = 1 /\ Len(_cameras) > 0
          /\ Count(calls, "app.deregisterCamera") = 1)
          => _activeCamera = _cameras[1].elt

\* The active camera was disconnected while two others were registered.
ActiveCameraDefaultsToFirstWitness ==
    /\ op.name = "camera.disconnectedCallback"
    /\ op.b = 1
    /\ Count(calls, "app.deregisterCamera") = 1
    /\ Len(_cameras) >= 2
    /\ _activeCamera = _cameras[1].elt

\* C3: a camera that registers while another camera is active leaves the
\* active camera unchanged.
RegisterKeepsActiveCamera ==
    [][ (_activeCamera # Undefined
           /\ op'.name \in {"camera.connectedCallback", "firstUpdated"})
        => _activeCamera' = _activeCamera ]_vars

\* A second camera, with another id, has just registered.
RegisterKeepsActiveCameraWitness ==
    /\ op.name = "camera.connectedCallback"
    /\ Len(_cameras) >= 2
    /\ _activeCamera # Undefined
    /\ _activeCamera # op.a
    /\ cams[_activeCamera].id # cams[op.a].id

\* ------------------------------------------------ frame loop (SpecLoop)
\* The frame loop of the app over cameras and scenes that were in the
\* document from the start and may be detached, with writes to `fps`,
\* changes of the canvas' client size and calls of resize().

\* The camera elements of the document in the frame loop.
LoopCameras == 1..(NumCameras - 1)

\* Values written to `fps`, in tenths: null, 250 and 500 frames per second
\* (intervals of 16, 4 and 2 ms).
LoopFpsValues == {Null, 2500, 5000}

InitLoop ==
    /\ InitApp
    /\ InitCams(LoopCameras, [n \in CameraNodes |-> n])
    /\ \E static \in SUBSET SceneNodes :
          scenes = [s \in SceneNodes |-> IF s \in static THEN StaticScene ELSE NewScene]
    /\ clientSize = [width |-> 1, height |-> 1]

NextLoop ==
    \/ AppFirstUpdated
    \/ \E time \in 1..MaxTime : Tick(time)
    \/ \E newVal \in LoopFpsValues : SetFps(newVal)
    \/ \E size \in DisplaySizes : SurfaceResized(size)
    \/ ResizeCalled
    \/ \E n \in LoopCameras : CameraDisconnected(n)
    \/ \E s \in SceneNodes : SceneDisconnected(s)

SpecLoop == InitLoop /\ [][NextLoop]_vars

\* The handler that ran last was tick() and it called step().
Stepped == op.name = "tick" /\ calls # <<>> /\ calls[1].fn = "step"


\* C4: step() executed while there is no active scene or no active camera
\* completes without raising an error and issues no render call.
StepWithoutSelectionIsNoOp ==
    (Stepped /\ (_activeScene = Undefined \/ _activeCamera = Undefined))
        => (~threw /\ Count(calls, "render") = 0)

\* C5: tick( now) invokes step( now, now - lastTime) exactly when that delta
\* is at least the interval, and sets lastTime to now exactly when step was
\* invoked.
TickStepsIffIntervalElapsed ==
    [][ op'.name = "tick"
        => /\ Stepped' <=> (op'.a - _lastTime >= _interval)
           /\ Stepped' => calls'[1] = Call("step", op'.a, op'.a - _lastTime, 0)
           /\ _lastTime' = IF Stepped' THEN op'.a ELSE _lastTime ]_vars

\* C6: every tick schedules exactly one next tick and runs step at most
\* once, however many intervals were missed.
TickReschedulesOnce ==
    op.name = "tick"
        => (Count(calls, "requestAnimationFrame") = 1 /\ Count(calls, "step") <= 1)

\* The calls of one complete step( time, delta) from the current state, in
\* the order of the statement of C7.
StepOrder(time, delta) ==
    (IF rendererSize # clientSize
     THEN [i \in 1..Len(_cameras) |->
              Call("updateAspectRatio", _cameras[i].elt, clientSize.width, clientSize.height)]
          \o << Call("setSize", clientSize.width, clientSize.height, 0) >>
     ELSE << >>)
    \o [i \in 1..Len(_scenes) |-> Call("scene.step", _scenes[i].elt, time, delta)]
    \o [i \in 1..Len(_cameras) |-> Call("camera.step", _cameras[i].elt, time, delta)]
    \o << Call("render", _activeScene, _activeCamera, 0) >>

\* C7: one step( now, delta) resizes if the client size differs from the
\* buffer size, then steps every registered scene, then every registered
\* camera, then renders once with the active scene and camera, and runs
\* to completion.
StepRunsInOrder ==
    [][ Stepped'
        => calls' = << Call("step", op'.a, op'.b, 0) >>
                    \o StepOrder(op'.a, op'.b)
                    \o << Call("requestAnimationFrame", 0, 0, 0) >> ]_vars

\* The calls of the resize path among cs.
ResizeCalls(cs) == Count(cs, "setSize") + Count(cs, "updateAspectRatio")

MaxFpsTenths == 1205

\* Values written to `fps`: null and every tenth up to the largest; the
\* values below 10 floor to 0 frames per second.
FpsValues == {Null} \cup 1..MaxFpsTenths

InitFps ==
    /\ InitApp
    /\ cams = [n \in CameraNodes |-> [NewCamera EXCEPT !.id = n]]
    /\ scenes = [s \in SceneNodes |-> NewScene]
    /\ clientSize = [width |-> 1, height |-> 1]

NextFps == \E newVal \in FpsValues : SetFps(newVal)

SpecFps == InitFps /\ [][NextFps]_vars

\* C9: after a write of the desired frame rate, the interval is
\* floor( 1000 / floor( fps)): the largest whole number of milliseconds
\* that fits floor( fps) times in a second.  24 frames per second give 41
\* ms, and null gives 60 frames per second and 16 ms.
IntervalIsFloorOfFps ==
    op.name = "set fps"
        => /\ op.a # Null => (_fps * 10 <= op.a /\ op.a < (_fps + 1) * 10)
           /\ _fps > 0 => (_interval * _fps <= 1000 /\ 1000 < (_interval + 1) * _fps)
           /\ _fps = 0 => _interval = Infinity
           /\ op.a = 240 => _interval = 41
           /\ op.a = Null => (_fps = 60 /\ _interval = 16)

\* 24.5 frames per second were written: 24 frames per second, 41 ms.
IntervalIsFloorOfFpsWitness ==
    /\ op.name = "set fps"
    /\ op.a = 245
    /\ _fps = 24
    /\ _interval = 41

\* ------------------------------------------- camera updates (SpecCamera)
\* One camera element below an app that has not been initialized: its
\* connection and disconnection, the writes to its `type`, `options` and
\* `controls` properties, and the updates that Lit-Element runs.

\* The camera element whose properties are written.
CameraUnderTest == 1

InitCamera ==
    /\ InitApp
    /\ cams = [n \in CameraNodes |-> [NewCamera EXCEPT !.id = n]]
    /\ scenes = [s \in SceneNodes |-> NewScene]
    /\ clientSize = [width |-> 1, height |-> 1]

NextCamera ==
    \/ CameraConnected(CameraUnderTest)
    \/ CameraDisconnected(CameraUnderTest)
    \/ CameraRemoved(CameraUnderTest)
    \/ CameraUpdate(CameraUnderTest)
    \/ \E newVal \in CameraTypeEnum : SetType(CameraUnderTest, newVal)
    \/ \E newVal \in OptionsValues : SetOptions(CameraUnderTest, newVal)
    \/ \E newVal \in ControlsValues : SetControls(CameraUnderTest, newVal)

SpecCamera == InitCamera /\ [][NextCamera]_vars

\* The calls of cs that dispose or create a controller channel, a
\* controller or a backend camera.
Lifecycle(cs) ==
    SelectSeq(cs, LAMBDA call :
        call.fn \in {"osc.close", "orbitter.dispose", "disposeCamera", "createCamera"})

\* What the change of `type` of camera c (element n) has to do, in order.
TypeChangeOrder(c, n) ==
    (IF c.osc # <<>> /\ c.osc[1].channel = "open"
     THEN << Call("osc.close", n, 0, 0) >> ELSE << >>)
    \o (IF c.orbitter # <<>> THEN << Call("orbitter.dispose", n, 0, 0) >> ELSE << >>)
    \o (IF HasCamera(c) THEN << Call("disposeCamera", n, 0, 0) >> ELSE << >>)
    \o << Call("createCamera", n, 0, 0) >>

\* C10: an update in which `type` changed to a different value disposes
\* every attached controller, then the backend camera, then creates a
\* backend camera from the current options; afterwards no controller is
\* attached unless `controls` changed too.
TypeChangeRebuildsCamera ==
    [][ \A n \in CameraNodes :
          (op'.name = "camera.updated" /\ op'.a = n
             /\ "type" \in cams[n].changed /\ cams[n].oldType # cams[n].type)
          => /\ ~threw'
             /\ Lifecycle(calls') = TypeChangeOrder(cams[n], n)
             /\ HasCamera(cams'[n])
             /\ cams'[n]._camera[1].type = cams[n].type
             /\ cams'[n]._camera[1].options = cams[n].options
             /\ "controls" \notin cams[n].changed
                   => (cams'[n].osc = <<>> /\ cams'[n].orbitter = <<>>) ]_vars

\* The calls of cs that dispose or create a backend camera.
CameraCycle(cs) ==
    SelectSeq(cs, LAMBDA call : call.fn \in {"disposeCamera", "createCamera"})

\* C11: writing the same `type` twice in a row gives exactly one dispose and
\* create cycle of the backend camera: the second write changes nothing,
\* the update after a change of `type` to a different value disposes the
\* backend camera (if any) and creates one, once, and an update whose
\* previous `type` equals the current one disposes and creates nothing.
SameTypeTwiceRebuildsOnce ==
    [][ \A n \in CameraNodes :
          /\ (op'.name = "set type" /\ op'.a = n /\ op'.b = 1) => cams' = cams
          /\ (op'.name = "camera.updated" /\ op'.a = n)
                => CameraCycle(calls') =
                      IF "type" \in cams[n].changed /\ cams[n].oldType # cams[n].type
                      THEN (IF HasCamera(cams[n])
                            THEN << Call("disposeCamera", n, 0, 0) >> ELSE << >>)
                           \o << Call("createCamera", n, 0, 0) >>
                      ELSE << >> ]_vars

\* --------------------------------------------- camera pose (SpecPose)
\* One camera element: its connection and disconnection, the writes to
\* its `type`, `position` and `lookAt` properties, and the updates that
\* Lit-Element runs.

NextPose ==
    \/ CameraConnected(CameraUnderTest)
    \/ CameraDisconnected(CameraUnderTest)
    \/ CameraUpdate(CameraUnderTest)
    \/ \E newVal \in CameraTypeEnum : SetType(CameraUnderTest, newVal)
    \/ \E newVal \in PositionValues : SetPosition(CameraUnderTest, newVal)
    \/ \E newVal \in LookAtValues : SetLookAt(CameraUnderTest, newVal)

SpecPose == InitCamera /\ [][NextPose]_vars

\* The calls of cs that move or orient a backend camera.
PoseCalls(cs) == SelectSeq(cs, LAMBDA call : call.fn \in {"position.set", "lookAt"})

\* C12: an update of a mounted camera in which `position` changed writes
\* the position to the backend camera and then orients it toward the
\* current `lookAt`, once, also when `lookAt` changed in the same update,
\* and leaves the `lookAt` property as it was.
PositionUpdateKeepsLookAt ==
    [][ \A n \in CameraNodes :
          (op'.name = "camera.updated" /\ op'.a = n
             /\ cams[n].mounted /\ "position" \in cams[n].changed)
          => /\ ~threw'
             /\ PoseCalls(calls') = << Call("position.set", n, 0, 0), Call("lookAt", n, 0, 0) >>
             /\ HasCamera(cams'[n])
             /\ cams'[n]._camera[1].position = cams[n].position
             /\ cams'[n]._camera[1].target = << cams[n].lookAt >>
             /\ cams'[n].lookAt = cams[n].lookAt ]_vars

\* The calls of cs that dispose or construct a controller.
ControllerCalls(cs) ==
    SelectSeq(cs, LAMBDA call :
        call.fn \in {"osc.close", "orbitter.dispose", "osc.open", "console.error",
                     "orbitter.new"})

\* What the transition of the controllers of camera c (element n) to the
\* kinds of `_controls` has to do by the statement of C13: dispose the
\* attached controllers that are no longer asked for, then construct the
\* ones that are asked for and not attached, OSC first.
ControlsTransition(c, n) ==
    (IF c.osc # <<>> /\ ~Includes(c._controls, "osc") /\ c.osc[1].channel = "open"
     THEN << Call("osc.close", n, 0, 0) >> ELSE << >>)
    \o (IF c.orbitter # <<>> /\ ~Includes(c._controls, "orbitter")
        THEN << Call("orbitter.dispose", n, 0, 0) >> ELSE << >>)
    \o (IF c.osc = <<>> /\ Includes(c._controls, "osc")
        THEN << Call(IF c.type = "perspective" THEN "osc.open" ELSE "console.error",
                     n, 0, 0) >>
        ELSE << >>)
    \o (IF c.orbitter = <<>> /\ Includes(c._controls, "orbitter")
        THEN << Call("orbitter.new", n, 0, 0) >> ELSE << >>)

\* C13: an update in which `controls` changed (and `type` did not) disposes
\* only the controllers absent from the new set and constructs only the
\* ones absent from the old set, the OSC controller before the orbit
\* controller; a kind in both sets is neither disposed nor re-created.
ControlsUpdateTouchesDifferenceOnly ==
    [][ \A n \in CameraNodes :
          (op'.name = "camera.updated" /\ op'.a = n
             /\ "controls" \in cams[n].changed /\ "type" \notin cams[n].changed)
          => /\ ~threw'
             /\ ControllerCalls(calls') = ControlsTransition(cams[n], n) ]_vars

\* Camera n carries an OSC controller whose initialization was aborted.
HasAbortedOsc(c) == c.osc # <<>> /\ c.osc[1].channel = "none"

\* The update of camera n as it would run if no OSC controller were
\* attached to it.
UpdateWithoutOsc(n) ==
    CameraPerformUpdate(Run([cams EXCEPT ![n].osc = <<>>], <<>>, FALSE), n)

\* C14: an update that attaches an OSC controller to a camera that is not
\* of type `perspective` reports an error and opens no channel, and the
\* aborted controller leaves the later updates of the camera as they would
\* be without it: they raise nothing more and give the same backend camera.
AbortedOscLeavesCameraUsable ==
    [][ \A n \in CameraNodes :
          (op'.name = "camera.updated" /\ op'.a = n)
          => /\ (cams[n].osc = <<>> /\ HasAbortedOsc(cams'[n]))
                   => /\ cams[n].type # "perspective"
                      /\ Count(calls', "console.error") = 1
                      /\ Count(calls', "osc.open") = 0
                      /\ ~threw'
             /\ HasAbortedOsc(cams[n])
                   => /\ threw' = UpdateWithoutOsc(n).threw
                      /\ cams'[n]._camera = UpdateWithoutOsc(n).cams[n]._camera ]_vars

\* C15: the disconnection of a camera with an attached OSC controller
\* closes the channel of the controller exactly once (a controller
\* without a channel has none to close), raises nothing, and leaves the
\* camera without a controller.
DisconnectClosesChannelOnce ==
    [][ \A n \in CameraNodes :
          (op'.name = "camera.disconnectedCallback" /\ op'.a = n /\ cams[n].osc # <<>>)
          => /\ ~threw'
             /\ Count(calls', "osc.close") = IF cams[n].osc[1].channel = "open" THEN 1 ELSE 0
             /\ cams'[n].osc = <<>>
             /\ cams'[n].orbitter = <<>> ]_vars

\* ------------------------------------------- OSC controller (SpecOsc)
\* One camera element with its OSC controller: the controller is attached
\* and replaced by the updates of the camera and disposed by its holder.

NextOsc ==
    \/ CameraConnected(CameraUnderTest)
    \/ CameraUpdate(CameraUnderTest)
    \/ \E newVal \in CameraTypeEnum : SetType(CameraUnderTest, newVal)
    \/ \E newVal \in ControlsValues : SetControls(CameraUnderTest, newVal)
    \/ ControllerDispose(CameraUnderTest)

SpecOsc == InitCamera /\ [][NextOsc]_vars

\* C16: dispose() of the OSC controller raises nothing, closes the channel
\* when it is open and closes nothing when the controller was disposed
\* before or when its initialization was aborted.
OscDisposeIsIdempotent ==
    [][ \A n \in CameraNodes :
          (op'.name = "osc.dispose" /\ op'.a = n)
          => /\ ~threw'
             /\ Count(calls', "osc.close") = IF cams[n].osc[1].channel = "open" THEN 1 ELSE 0
             /\ cams'[n].osc[1].channel = "none" ]_vars

\* The positions in cs of the calls that dispose a controller.
DisposePositions(cs) ==
    {i \in 1..Len(cs) : cs[i].fn \in {"osc.close", "orbitter.dispose"}}

\* The positions in cs at which the app handled `camera-disconnected`.
DeregisterPositions(cs) ==
    {i \in 1..Len(cs) : cs[i].fn = "app.deregisterCamera"}

InitMount ==
    /\ InitApp
    /\ InitCams(LoopCameras, [n \in CameraNodes |-> n])
    /\ \E static \in SUBSET SceneNodes :
          scenes = [s \in SceneNodes |-> IF s \in static THEN StaticScene ELSE NewScene]
    /\ clientSize = [width |-> 1, height |-> 1]

NextMount ==
    \/ AppFirstUpdated
    \/ \E n \in LoopCameras : CameraConnected(n)
    \/ \E n \in LoopCameras : CameraDisconnected(n)
    \/ \E n \in LoopCameras : CameraRemoved(n)
    \/ \E n \in LoopCameras : CameraUpdate(n)
    \/ \E s \in SceneNodes : SceneConnected(s)
    \/ \E s \in SceneNodes : SceneDisconnected(s)
    \/ \E s \in SceneNodes : SceneRemoved(s)
    \/ \E s \in SceneNodes : SceneUpdate(s)

SpecMount == InitMount /\ [][NextMount]_vars

\* C18: the camera and scene registries hold only elements that are
\* mounted; when a camera or a scene is unmounted the app handles its
\* notification of deregistration and removes its id from the registry, and
\* does so before the element releases its backend resources.
RegistriesHoldMountedNodes ==
    /\ \A i \in 1..Len(_cameras) : cams[_cameras[i].elt].mounted
    /\ \A i \in 1..Len(_scenes) : scenes[_scenes[i].elt].mounted
    /\ op.name = "camera.disconnectedCallback"
          => /\ calls # <<>>
             /\ calls[1].fn = "app.deregisterCamera"
             /\ ~MapHas(_cameras, cams[op.a].id)
    /\ op.name = "scene.disconnectedCallback"
          => /\ calls # <<>>
             /\ calls[1].fn = "app.deregisterScene"
             /\ ~MapHas(_scenes, SceneIdOf(op.a))

\* ------------------------------- remote near plane (SpecZNear)
\* One perspective camera with an OSC controller that receives
\* `/camera/zNear` messages, between writes of `options` and updates.

\* A variant of clamp without the upper bound.
ClampNoUpper(x, min, max) == IF x < min THEN min ELSE x

\* clamp( x, min, max), for min <= max.
Clamp(x, min, max) == IF x < min THEN min ELSE IF x > max THEN max ELSE x

\* The arguments of `/camera/zNear`, in tenths: 0, 0.5 (the fader at rest)
\* and 1.
DzNearValues == {0, 5, 10}

\* The `/camera/zNear` handler of the controller of camera n; near and far
\* are in tenths, so that 5.0 * (-0.5 + dzNear) is 5 * dzNear - 25.  clamp
\* raises a RangeError when its bounds are out of order.
OscZNear(r, n, dzNear) ==
    With(r, LAMBDA x :
        IF DefaultOptions.near > DefaultOptions.far THEN Throw(x)
        ELSE With(Clamp(x.cams[n].options.near + 5 * dzNear - 25,
                        DefaultOptions.near, DefaultOptions.far), LAMBDA newNear :
                 IF newNear # x.cams[n].options.near
                 THEN Log([x EXCEPT !.cams[n].options.near = newNear,
                                    !.cams[n].changed = @ \cup {"options"}],
                          Call("osc.send", n, newNear, 0))
                 ELSE x))

\* A `/camera/zNear` message arrives on the open channel of the controller
\* of camera n: the browser delivers it in a task of its own, after the
\* pending updates have run.
ZNearMessage(n, dzNear) ==
    /\ MicrotasksDrained
    /\ cams[n].osc # <<>>
    /\ cams[n].osc[1].bound
    /\ cams[n].osc[1].channel = "open"
    /\ \E r1 \in {OscZNear(Start, n, dzNear)} :
          /\ cams' = r1.cams
          /\ Done("osc /camera/zNear", n, dzNear, r1.calls)
    /\ UNCHANGED << _cameras, _activeCamera, sceneVars, surfaceVars, timingVars >>

\* Values written to `options` by the page: a near plane below, inside and
\* above the default envelope.
NearOptionsValues ==
    {[DefaultOptions EXCEPT !.near = v] : v \in {0, 40, DefaultOptions.far + 10}}

NextZNear ==
    \/ CameraConnected(CameraUnderTest)
    \/ CameraUpdate(CameraUnderTest)
    \/ SetControls(CameraUnderTest, [null |-> FALSE, pieces |-> <<"osc">>])
    \/ \E newVal \in NearOptionsValues : SetOptions(CameraUnderTest, newVal)
    \/ \E dzNear \in DzNearValues : ZNearMessage(CameraUnderTest, dzNear)

SpecZNear == InitCamera /\ [][NextZNear]_vars

\* C19: after every `/camera/zNear` message with an argument in [0, 1] the
\* near value of the camera lies between the default near and the default
\* far of the perspective camera, whatever it was before, and the handler
\* raises nothing.
NearStaysInEnvelope ==
    [][ \A n \in CameraNodes :
          (op'.name = "osc /camera/zNear" /\ op'.a = n)
          => /\ ~threw'
             /\ cams'[n].options.near >= DefaultOptions.near
             /\ cams'[n].options.near <= DefaultOptions.far ]_vars

\* A message with argument 1 was handled and left the near value at the
\* default far: the sum was above the envelope and clamp cut it.
NearStaysInEnvelopeWitness ==
    /\ op.name = "osc /camera/zNear"
    /\ op.b = 10
    /\ cams[op.a].options.near = DefaultOptions.far
    /\ calls # <<>>

\* ------------------------------------- scene children (SpecScene)
\* The frame loop over scenes whose child elements are inserted and removed
\* while the scenes are attached, detached and updated.

\* The time stamps of the frame callbacks: the first is within the default
\* interval of 16 ms from the start, the others are not.
SceneTimes == {10, 17, 40}

\* `scene.insertBefore( child, scene.children[ p])`: a new element becomes
\* the child at place p of scene s.
SceneInsertChild(s, p, isObject) ==
    /\ Len(scenes[s].children) < MaxChildren
    /\ p \in 1..(Len(scenes[s].children) + 1)
    /\ \E k \in 1..MaxChildren :
          /\ \A i \in 1..Len(scenes[s].children) : scenes[s].children[i].elt # k
          /\ scenes' = [scenes EXCEPT ![s].children =
                           SubSeq(@, 1, p - 1) \o << [elt |-> k, object |-> isObject] >>
                           \o SubSeq(@, p, Len(@))]
    /\ Done("scene.insertBefore", s, p, <<>>)
    /\ UNCHANGED << _scenes, _activeScene, cameraVars, surfaceVars, timingVars >>

\* `scene.removeChild( scene.children[ p])`
SceneRemoveChild(s, p) ==
    /\ p \in 1..Len(scenes[s].children)
    /\ scenes' = [scenes EXCEPT ![s].children = SubSeq(@, 1, p - 1) \o SubSeq(@, p + 1, Len(@))]
    /\ Done("scene.removeChild", s, p, <<>>)
    /\ UNCHANGED << _scenes, _activeScene, cameraVars, surfaceVars, timingVars >>

\* The first camera was in the document from the start, each scene may have
\* been.
InitScene ==
    /\ InitApp
    /\ cams = [n \in CameraNodes |->
                 [(IF n = 1 THEN StaticCamera ELSE NewCamera) EXCEPT !.id = n]]
    /\ \E static \in SUBSET SceneNodes :
          scenes = [s \in SceneNodes |-> IF s \in static THEN StaticScene ELSE NewScene]
    /\ clientSize = [width |-> 1, height |-> 1]

NextScene ==
    \/ AppFirstUpdated
    \/ \E time \in SceneTimes : Tick(time)
    \/ \E s \in SceneNodes : SceneConnected(s)
    \/ \E s \in SceneNodes : SceneDisconnected(s)
    \/ \E s \in SceneNodes : SceneRemoved(s)
    \/ \E s \in SceneNodes : SceneUpdate(s)
    \/ \E s \in SceneNodes, p \in 1..MaxChildren, isObject \in BOOLEAN :
          SceneInsertChild(s, p, isObject)
    \/ \E s \in SceneNodes, p \in 1..MaxChildren : SceneRemoveChild(s, p)

SpecScene == InitScene /\ [][NextScene]_vars

\* The calls that follow the call at place i of cs up to the next call that
\* is not the step of an object.
RECURSIVE Forwarded(_, _)
Forwarded(cs, i) ==
    IF i + 1 > Len(cs) \/ cs[i + 1].fn # "object.step" THEN <<>>
    ELSE << cs[i + 1] >> \o Forwarded(cs, i + 1)

\* The steps that scene s owes to its children for step( time, delta): one
\* for each child that is an object and mounted, in document order.  The
\* children of a scene are in the document exactly when the scene is.
RECURSIVE MountedObjectSteps(_, _, _, _)
MountedObjectSteps(s, i, time, delta) ==
    IF i > Len(scenes[s].children) THEN <<>>
    ELSE (IF scenes[s].children[i].object /\ scenes[s].mounted
          THEN << Call("object.step", ObjectRef(s, scenes[s].children[i].elt), time, delta) >>
          ELSE <<>>)
         \o MountedObjectSteps(s, i + 1, time, delta)

\* C20: step( now, delta) of a scene calls step( now, delta) once on each of
\* its mounted object children, in document order, and on no other element.
SceneStepForwardsToObjects ==
    \A i \in 1..Len(calls) :
        calls[i].fn = "scene.step"
        => Forwarded(calls, i) = MountedObjectSteps(calls[i].a, 1, calls[i].b, calls[i].c)

\* ------------------------------------ object elements (SpecObject)
\* Object elements created, attached below a scene or elsewhere in the
\* document, and detached, while the scenes are attached and updated.

\* Largest number of times one object element is attached.
MaxInits == 2

\* `document.createElement( kind)`
ObjectCreated(o, kind) ==
    /\ objs[o].kind = "none"
    /\ objs' = [objs EXCEPT ![o] = IF kind = "three-force-graph" THEN NewForceGraph(o)
                                   ELSE IF kind = "three-planet" THEN NewPlanet(o)
                                   ELSE [NoObject EXCEPT !.kind = kind]]
    /\ op' = Op("object.constructor", o, 0)
    /\ calls' = <<>>
    /\ threw' = FALSE
    /\ UNCHANGED << cameraVars, sceneVars, surfaceVars, timingVars, isConnected >>

\* The object element o is attached below the mounted scene element
\* `parent`, or (Null) at a place of the document with no scene above it.
ObjectConnected(o, parent) ==
    /\ objs[o].kind # "none"
    /\ ~objs[o].mounted
    /\ objs[o].inits < MaxInits
    /\ parent # Null => scenes[parent].mounted
    /\ \E r1 \in {ObjectConnectedCallback(ORun(objs, scenes, <<>>, FALSE), o, parent)} :
          /\ objs' = r1.objs
          /\ scenes' = r1.scenes
          /\ op' = Op("object.connectedCallback", o, parent)
          /\ calls' = r1.calls
          /\ threw' = r1.threw
    /\ UNCHANGED << cameraVars, _scenes, _activeScene, surfaceVars, timingVars, isConnected >>

\* The object element o is detached.
ObjectDisconnected(o) ==
    /\ objs[o].mounted
    /\ \E r1 \in {ObjectDisconnectedCallback(ORun(objs, scenes, <<>>, FALSE), o)} :
          /\ objs' = r1.objs
          /\ scenes' = r1.scenes
          /\ op' = Op("object.disconnectedCallback", o, 0)
          /\ calls' = r1.calls
          /\ threw' = r1.threw
    /\ UNCHANGED << cameraVars, _scenes, _activeScene, surfaceVars, timingVars, isConnected >>

InitObject ==
    /\ InitApp
    /\ cams = [n \in CameraNodes |-> [NewCamera EXCEPT !.id = n]]
    /\ \E static \in SUBSET SceneNodes :
          scenes = [s \in SceneNodes |-> IF s \in static THEN StaticScene ELSE NewScene]
    /\ clientSize = [width |-> 1, height |-> 1]

NextObject ==
    \/ AppFirstUpdated
    \/ \E s \in SceneNodes : SceneConnected(s)
    \/ \E s \in SceneNodes : SceneUpdate(s)
    \/ \E o \in ObjectNodes, kind \in ObjectKinds : ObjectCreated(o, kind)
    \/ \E o \in ObjectNodes, parent \in SceneNodes \cup {Null} : ObjectConnected(o, parent)
    \/ \E o \in ObjectNodes : ObjectDisconnected(o)

SpecObject == InitObject /\ [][NextObject]_vars

\* The places in cs of the calls of fn.
Positions(cs, fn) == {i \in 1..Len(cs) : cs[i].fn = fn}

\* C21: every time an object element is unmounted, dispose() is called
\* exactly once, first of all, and its binding to the scene is not cleared
\* before that call: a binding that is cleared is cleared after it.
DisposeOnceBeforeUnbind ==
    [][ \A o \in ObjectNodes :
          (op'.name = "object.disconnectedCallback" /\ op'.a = o)
          => /\ Count(calls', "object.dispose") = 1
             /\ calls'[1].fn = "object.dispose"
             /\ \A i \in Positions(calls', "object.unbind") : i > 1
             /\ objs'[o]._sceneElement # objs[o]._sceneElement
                   => Positions(calls', "object.unbind") # {} ]_vars

\* An object was attached below a scene once and detached: dispose(), then
\* the binding cleared.
DisposeOnceBeforeUnbindWitness ==
    /\ op.name = "object.disconnectedCallback"
    /\ objs[op.a].inits = 1
    /\ objs[op.a]._sceneElement = Undefined
    /\ calls = << Call("object.dispose", op.a, 0, 0), Call("object.unbind", op.a, 0, 0) >>

\* C22: init() is called at most once on any object element, whatever the
\* sequence of attaching, detaching and attaching again.
InitAtMostOnce ==
    \A o \in ObjectNodes : objs[o].inits <= 1

\* C23: attaching an object element at a place with no scene element above
\* it raises an error in the callback, leaves the binding of the element
\* unset and does not call init().
MountOutsideSceneRaises ==
    [][ (op'.name = "object.connectedCallback" /\ op'.b = Null)
        => /\ threw'
           /\ Count(calls', "Error") = 1
           /\ Count(calls', "object.init") = 0
           /\ objs'[op'.a]._sceneElement = Undefined ]_vars

\* ------------------------------------ force graphs (SpecForceGraph)
\* Nodes and links added to force graphs and the graphs refreshed, while
\* the elements are created, attached and detached as in SpecObject.

\* Largest number of nodes and links added to one force graph.
MaxAdds == 2

\* `graph.addNode( id, data)` from the page.
ForceGraphAddNode(o) ==
    /\ objs[o].kind = "three-force-graph"
    /\ objs[o].serial < MaxAdds
    /\ \E r1 \in {AddNode(ORun(objs, scenes, <<>>, FALSE), o)} :
          /\ objs' = r1.objs
          /\ scenes' = r1.scenes
          /\ op' = Op("addNode", o, 0)
          /\ calls' = r1.calls
          /\ threw' = r1.threw
    /\ UNCHANGED << cameraVars, _scenes, _activeScene, surfaceVars, timingVars, isConnected >>

\* `graph.addLink( from, to, data)` from the page, `data` an object.
ForceGraphAddLink(o) ==
    /\ objs[o].kind = "three-force-graph"
    /\ objs[o].serial < MaxAdds
    /\ \E r1 \in {AddLink(ORun(objs, scenes, <<>>, FALSE), o)} :
          /\ objs' = r1.objs
          /\ scenes' = r1.scenes
          /\ op' = Op("addLink", o, 0)
          /\ calls' = r1.calls
          /\ threw' = r1.threw
    /\ UNCHANGED << cameraVars, _scenes, _activeScene, surfaceVars, timingVars, isConnected >>

\* updated() of the force graph o after `data` or `generate` was written.
ForceGraphUpdated(o) ==
    /\ objs[o].kind = "three-force-graph"
    /\ objs[o].mounted
    /\ objs[o].serial < MaxAdds
    /\ \E r1 \in {Refresh(ORun(objs, scenes, <<>>, FALSE), o)} :
          /\ objs' = r1.objs
          /\ scenes' = r1.scenes
          /\ op' = Op("graph.updated", o, 0)
          /\ calls' = r1.calls
          /\ threw' = r1.threw
    /\ UNCHANGED << cameraVars, _scenes, _activeScene, surfaceVars, timingVars, isConnected >>

\* The first scene element is in the markup of the page, the others are
\* attached later.
InitForceGraph ==
    /\ InitApp
    /\ cams = [n \in CameraNodes |-> [NewCamera EXCEPT !.id = n]]
    /\ scenes = [s \in SceneNodes |-> IF s = 1 THEN StaticScene ELSE NewScene]
    /\ clientSize = [width |-> 1, height |-> 1]

NextForceGraph ==
    \/ \E s \in SceneNodes : SceneConnected(s)
    \/ \E s \in SceneNodes : SceneUpdate(s)
    \/ \E o \in ObjectNodes, kind \in ObjectKinds : ObjectCreated(o, kind)
    \/ \E o \in ObjectNodes, parent \in SceneNodes \cup {Null} : ObjectConnected(o, parent)
    \/ \E o \in ObjectNodes : ObjectDisconnected(o)
    \/ \E o \in ObjectNodes : ForceGraphAddNode(o)
    \/ \E o \in ObjectNodes : ForceGraphAddLink(o)
    \/ \E o \in ObjectNodes : ForceGraphUpdated(o)

SpecForceGraph == InitForceGraph /\ [][NextForceGraph]_vars

\* The elements of a sequence.
Range(seq) == {seq[i] : i \in 1..Len(seq)}

\* C24: after any sequence of addNode and addLink calls, every geometry,
\* material, mesh and line that the calls made is in the list of
\* disposables of the force graph.
CreatedAreDisposables ==
    \A o \in ObjectNodes : objs[o].created \subseteq Range(objs[o].__disposables)

\* A force graph with no group made a node whose addNode raised, and then a
\* link: all six objects are in its list.
CreatedAreDisposablesWitness ==
    \E o \in ObjectNodes :
        /\ op = Op("addLink", o, 0)
        /\ threw
        /\ objs[o].created = { Backend(o, "sphere-geometry", 1), Backend(o, "sphere-material", 1),
                               Backend(o, "mesh", 1), Backend(o, "line-material", 2),
                               Backend(o, "line-geometry", 2), Backend(o, "line", 2) }
        /\ objs[o].created \subseteq Range(objs[o].__disposables)

\* The backend objects of force graph o that the backend scenes hold.
HeldByScenes(scs, o) ==
    { b \in UNION { UNION { scs[s]._scene[i].objects : i \in 1..Len(scs[s]._scene) } :
                     s \in SceneNodes } :
        b.of = o }

\* C25: dispose() of a force graph, called when the element is detached,
\* completes without error, and afterwards no backend scene holds the
\* group, a mesh, a line or the light of the graph.
ForceGraphDisposeReleases ==
    [][ (op'.name = "object.disconnectedCallback" /\ objs[op'.a].kind = "three-force-graph")
        => /\ ~threw'
           /\ HeldByScenes(scenes', op'.a) = {} ]_vars

\* ------------------------------------ the app detached (SpecUnmount)
\* The app element is removed from the document, with its children, while
\* the frame loop runs.

\* ThreeApp.disconnectedCallback: a line on the console and the callback of
\* LitElement.
AppDisconnected ==
    /\ isConnected
    /\ isConnected' = FALSE
    /\ op' = Op("app.disconnectedCallback", 0, 0)
    /\ calls' = <<>>
    /\ threw' = FALSE
    /\ UNCHANGED << cameraVars, sceneVars, surfaceVars, timingVars, objs >>

NextUnmount ==
    \/ AppFirstUpdated
    \/ \E time \in 1..MaxTime : Tick(time)
    \/ AppDisconnected
    \/ \E n \in CameraNodes : CameraDisconnected(n)
    \/ \E s \in SceneNodes : SceneDisconnected(s)

SpecUnmount == InitScene /\ [][NextUnmount]_vars

\* C26: after the app element is detached the frame loop is stopped and the
\* renderer released: the callback releases the renderer, and no frame
\* callback that runs afterwards schedules another, runs step() or renders.
LoopStoppedAfterUnmount ==
    [][ /\ op'.name = "app.disconnectedCallback" => Count(calls', "renderer.dispose") = 1
        /\ (~isConnected /\ op'.name = "tick")
              => /\ Count(calls', "requestAnimationFrame") = 0
                 /\ Count(calls', "step") = 0
                 /\ Count(calls', "render") = 0 ]_vars

\* Camera element n holds `ratio` as its aspect ratio, and so does its
\* backend camera if it has one.
HasAspect(cs, n, ratio) ==
    /\ cs[n].options.aspect = ratio
    /\ HasCamera(cs[n]) => cs[n]._camera[1].options.aspect = ratio

\* C27: a camera that registers while the size of the canvas is known is
\* given the display ratio at once, and when init() of the app has run
\* every registered camera has the display ratio.
AspectRatioAssigned ==
    [][ /\ (op'.name = "camera.connectedCallback" /\ _canvas /\ Truthy(Ratio(clientSize)))
            => HasAspect(cams', op'.a, Ratio(clientSize))
        /\ (op'.name = "firstUpdated" /\ Truthy(Ratio(clientSize)))
            => /\ _initialized'
               /\ \A i \in 1..Len(_cameras') :
                     HasAspect(cams', _cameras'[i].elt, Ratio(clientSize)) ]_vars

\* C28: a camera that registers under an id the registry already holds
\* overwrites the entry and the registry does not grow; afterwards the
\* active camera is the element that the registry holds under the id of
\* the active camera.
RegisterCameraIdempotent ==
    [][ (op'.name = "camera.connectedCallback" /\ MapHas(_cameras, cams[op'.a].id))
        => /\ Len(_cameras') = Len(_cameras)
           /\ MapGet(_cameras', cams[op'.a].id) = op'.a
           /\ _activeCamera' # Undefined
                => MapGet(_cameras', CameraGetter(cams', _activeCamera')) = _activeCamera' ]_vars

\* ------------------------------------ the declared camera (SpecDeclared)
\* The page declares the camera of the app, `<three-app camera="2">`.  The
\* attribute is applied when the app element is created, on the empty
\* registry: the setter finds no camera, the default finds none either, and
\* the id is stored nowhere, so the app is left as its constructor left it
\* and Init is also the state after that first application.  Afterwards
\* the camera elements register, in every order, and the attribute may be
\* applied again at any moment.

\* The id that the `camera` attribute of the app names.
DeclaredCamera == 2

NextDeclared ==
    \/ SetCamera(DeclaredCamera)
    \/ \E n \in CameraNodes : CameraConnected(n)
    \/ \E n \in CameraNodes : CameraUpdate(n)
    \/ AppFirstUpdated

SpecDeclared == Init /\ [][NextDeclared]_vars

\* C29: when the app declared with a camera id is initialized and every
\* camera element has registered, the active camera is the element with
\* the declared id, in whatever order that happened.
DeclaredCameraBecomesActive ==
    ( /\ _initialized
      /\ \A n \in CameraNodes : cams[n].mounted
      /\ MapHas(_cameras, DeclaredCamera) )
    => _activeCamera = MapGet(_cameras, DeclaredCamera)

\* C30: a registered camera that deregisters while another registered
\* camera is the active one leaves the active camera unchanged.
DeregisterNonActiveKeepsActive ==
    [][ ( /\ op'.name = "camera.disconnectedCallback"
          /\ Count(calls', "app.deregisterCamera") = 1
          /\ MapGet(_cameras, cams[op'.a].id) = op'.a
          /\ _activeCamera # Undefined
          /\ _activeCamera # op'.a
          /\ MapGet(_cameras, cams[_activeCamera].id) = _activeCamera )
        => _activeCamera' = _activeCamera ]_vars

\* ------------------------------------ remote messages (SpecRemote)
\* The handlers that the constructor of ThreeCameraOSCController registers
\* on its channel, and the messages that arrive on it while the app runs
\* its frame loop.

\* The addresses of the messages that change the camera.
OscAddresses ==
    {"/camera/eyeXY", "/camera/eyeZ", "/camera/centerXY", "/camera/centerZ",
     "/camera/zNear", "/camera/zFar", "/camera/fovY", "/camera/zoom"}

\* The arguments of a message, in tenths: the first and the second value
\* of `incoming.args` (the second is read by the XY addresses only).
OscArgs == {<<5, 5>>, <<0, 5>>, <<5, 10>>, <<10, 0>>}

\* The handler of eyeXY, eyeZ, centerXY and centerZ, with the coordinates
\* in hundredths, so that (-0.5 + d) * 0.1 is d - 5: the XY addresses read
\* [ dz, dx ] and the Z addresses [ dy ]; the sum is assigned to `position`
\* or `lookAt` as a new array, and the label is sent, whatever the sum is.
OscMove(r, n, address, args) ==
    With(address \in {"/camera/eyeXY", "/camera/centerXY"}, LAMBDA xy :
    With(<< (IF xy THEN args[2] ELSE 5) - 5,
            (IF xy THEN 5 ELSE args[1]) - 5,
            (IF xy THEN args[1] ELSE 5) - 5 >>, LAMBDA d :
        IF address \in {"/camera/eyeXY", "/camera/eyeZ"}
        THEN Log([r EXCEPT !.cams[n].position = << @[1] + d[1], @[2] + d[2], @[3] + d[3] >>,
                           !.cams[n].changed = @ \cup {"position"}],
                 Call("osc.send", n, 0, 0))
        ELSE Log([r EXCEPT !.cams[n].lookAt = << @[1] + d[1], @[2] + d[2], @[3] + d[3] >>,
                           !.cams[n].changed = @ \cup {"lookAt"}],
                 Call("osc.send", n, 0, 0))))

\* The `/camera/zFar` handler: as the one of zNear, on `options.far`.
OscZFar(r, n, dzFar) ==
    With(r, LAMBDA x :
        IF DefaultOptions.near > DefaultOptions.far THEN Throw(x)
        ELSE With(Clamp(x.cams[n].options.far + 5 * dzFar - 25,
                        DefaultOptions.near, DefaultOptions.far), LAMBDA newFar :
                 IF newFar # x.cams[n].options.far
                 THEN Log([x EXCEPT !.cams[n].options.far = newFar,
                                    !.cams[n].changed = @ \cup {"options"}],
                          Call("osc.send", n, newFar, 0))
                 ELSE x))

\* OscFovY without the call of `this.camera.requestUpdate( "options", oldVal)`.
OscFovYNoRequestUpdate(r, n, fovY) ==
    With(200 + 140 * fovY, LAMBDA newFov :
        IF newFov # r.cams[n].options.fov
        THEN Log([r EXCEPT !.cams[n].options.fov = newFov],
                 Call("osc.send", n, newFov, 0))
        ELSE r)

\* The `/camera/fovY` handler: 20.0 + 140.0 * fovY, in tenths of a degree.
OscFovY(r, n, fovY) ==
    With(200 + 140 * fovY, LAMBDA newFov :
        IF newFov # r.cams[n].options.fov
        THEN Log([r EXCEPT !.cams[n].options.fov = newFov,
                           !.cams[n].changed = @ \cup {"options"}],
                 Call("osc.send", n, newFov, 0))
        ELSE r)

\* The `/camera/zoom` handler: oldZoom + 0.05 * (-0.5 + zoom), in
\* thousandths; the accessor of `zoom` requests the update.
OscZoom(r, n, zoom) ==
    With(r.cams[n].zoom + 5 * zoom - 25, LAMBDA newZoom :
        IF newZoom # r.cams[n].zoom
        THEN Log([r EXCEPT !.cams[n].zoom = newZoom,
                           !.cams[n].changed = @ \cup {"zoom"}],
                 Call("osc.send", n, newZoom, 0))
        ELSE r)

\* The handler of `address` on the controller of camera n.  Each handler
\* starts by reading a property of `this.camera`, which dispose() has set
\* to undefined.
OscHandler(r, n, address, args) ==
    IF ~r.cams[n].osc[1].bound THEN Throw(r)
    ELSE IF address = "/camera/zNear" THEN OscZNear(r, n, args[1])
    ELSE IF address = "/camera/zFar" THEN OscZFar(r, n, args[1])
    ELSE IF address = "/camera/fovY" THEN OscFovY(r, n, args[1])
    ELSE IF address = "/camera/zoom" THEN OscZoom(r, n, args[1])
    ELSE OscMove(r, n, address, args)

\* Largest number of steps between the camera and its default position,
\* look-at, zoom and planes that the messages of SpecRemote reach.
MaxDrift == 1

Abs(v) == IF v < 0 THEN -v ELSE v

\* The number of steps between camera record c and the defaults.
Drift(c) ==
    (Abs(c.position[1] - DefaultPosition[1]) + Abs(c.position[2] - DefaultPosition[2])
       + Abs(c.position[3] - DefaultPosition[3])
       + Abs(c.lookAt[1] - DefaultLookAt[1]) + Abs(c.lookAt[2] - DefaultLookAt[2])
       + Abs(c.lookAt[3] - DefaultLookAt[3])) \div 5
    + (Abs(c.zoom - DefaultZoom) + Abs(c.options.near - DefaultOptions.near)
       + Abs(c.options.far - DefaultOptions.far)) \div 25

\* A message arrives for the controller of camera n: the browser delivers
\* it in a task of its own, after the pending updates have run, and fires
\* no event, so that no handler runs, on a channel that close() was called
\* on or that was never opened.
OscMessage(n, address, args) ==
    /\ MicrotasksDrained
    /\ cams[n].osc # <<>>
    /\ \E r1 \in {IF cams[n].osc[1].channel = "open"
                   THEN OscHandler(Start, n, address, args) ELSE Start} :
          /\ cams' = r1.cams
          /\ Done(address, n, 0, r1.calls)
    /\ UNCHANGED << _cameras, _activeCamera, sceneVars, surfaceVars, timingVars >>

\* A message that leaves the camera within MaxDrift steps of its defaults.
RemoteMessage(n, address, args) ==
    /\ OscMessage(n, address, args)
    /\ Drift(cams'[n]) <= MaxDrift

\* One camera and one scene that were in the document when the elements
\* were defined; the app has not run its first update.
InitRemote ==
    /\ InitApp
    /\ cams = [n \in CameraNodes |->
                 [(IF n = CameraUnderTest THEN StaticCamera ELSE NewCamera) EXCEPT !.id = n]]
    /\ scenes = [s \in SceneNodes |-> IF s = 1 THEN StaticScene ELSE NewScene]
    /\ clientSize = [width |-> 1, height |-> 1]

NextRemote ==
    \/ AppFirstUpdated
    \/ \E time \in SceneTimes : Tick(time)
    \/ \E size \in DisplaySizes : SurfaceResized(size)
    \/ CameraUpdate(CameraUnderTest)
    \/ SetControls(CameraUnderTest, [null |-> FALSE, pieces |-> <<"osc">>])
    \/ \E address \in OscAddresses, args \in OscArgs : RemoteMessage(CameraUnderTest, address, args)

SpecRemote == InitRemote /\ [][NextRemote]_vars

\* The values of camera record c that the messages change.
Remote(c) == << c.position, c.lookAt, c.options, c.zoom >>

\* C33: a message whose computed value differs from the current one writes
\* it, marks the property as changed and sends one label; a message that
\* yields the same value leaves the camera as it is and sends nothing.
RemoteWritesOnlyChanges ==
    [][ \A n \in CameraNodes :
          (op'.name \in OscAddresses /\ op'.a = n /\ ~threw')
          => IF Remote(cams'[n]) # Remote(cams[n])
             THEN cams'[n].changed # {} /\ Count(calls', "osc.send") = 1
             ELSE cams' = cams /\ calls' = <<>> ]_vars

\* ------------------------------------------------- zoom messages (SpecZoom)
\* One camera with its OSC controller receiving `/camera/zoom` messages.

\* A `/camera/zoom` message, while the zoom has not left the range from
\* zero to its default by more than one step.
ZoomMessage(n, args) ==
    /\ cams[n].zoom >= 0
    /\ cams[n].zoom <= DefaultZoom
    /\ OscMessage(n, "/camera/zoom", args)

NextZoom ==
    \/ CameraUpdate(CameraUnderTest)
    \/ SetControls(CameraUnderTest, [null |-> FALSE, pieces |-> <<"osc">>])
    \/ \E args \in OscArgs : ZoomMessage(CameraUnderTest, args)

SpecZoom == InitRemote /\ [][NextZoom]_vars

\* C38: whatever `/camera/zoom` messages with arguments between 0 and 1
\* were received, the zoom of every camera is a positive number.
ZoomStaysPositive ==
    \A n \in CameraNodes : cams[n].zoom > 0


\* ---------------------------------------- disposed channel (SpecChannel)
\* One camera whose OSC controller is attached, replaced and disposed, by
\* the camera and by a holder of the controller, while messages arrive.

NextChannel ==
    \/ CameraConnected(CameraUnderTest)
    \/ CameraDisconnected(CameraUnderTest)
    \/ CameraUpdate(CameraUnderTest)
    \/ \E newVal \in {[null |-> TRUE, pieces |-> <<>>], [null |-> FALSE, pieces |-> <<"osc">>]} :
          SetControls(CameraUnderTest, newVal)
    \/ ControllerDispose(CameraUnderTest)
    \/ \E address \in OscAddresses, args \in OscArgs : RemoteMessage(CameraUnderTest, address, args)

SpecChannel == InitRemote /\ [][NextChannel]_vars

\* C32: a message that arrives for a controller that was disposed runs no
\* handler: the camera is left as it is, nothing is called and nothing is
\* raised.
DisposedControllerHandlesNothing ==
    [][ \A n \in CameraNodes :
          (op'.name \in OscAddresses /\ op'.a = n /\ ~cams[n].osc[1].bound)
          => cams' = cams /\ calls' = <<>> /\ ~threw' ]_vars

\* A message arrived for a controller that its holder disposed after the
\* channel was opened.
DisposedControllerHandlesNothingWitness ==
    /\ op.name \in OscAddresses
    /\ op.a = CameraUnderTest
    /\ cams[CameraUnderTest].osc # <<>>
    /\ ~cams[CameraUnderTest].osc[1].bound
    /\ cams[CameraUnderTest].type = "perspective"


\* The positions in cs of the calls of renderer.render.
RenderPositions(cs) == {i \in 1..Len(cs) : cs[i].fn = "render"}

\* The backend camera of camera record c has the values of the properties
\* of c.
ProjectionIsCurrent(c) ==
    /\ HasCamera(c)
    /\ c._camera[1].options = c.options
    /\ c._camera[1].zoom = c.zoom
    /\ c._camera[1].position = c.position

\* C31: whenever the renderer is called, the backend camera it is given has
\* the near and far planes, field of view, aspect ratio, zoom and position
\* of its camera element, whatever messages, resizes and ticks came before.
RenderSeesCurrentProjection ==
    [][ \A i \in RenderPositions(calls') : ProjectionIsCurrent(cams'[calls'[i].b]) ]_vars

\* A frame was rendered after messages changed the field of view and the
\* position of the camera and the canvas was resized.
RenderSeesCurrentProjectionWitness ==
    /\ RenderPositions(calls) # {}
    /\ cams[CameraUnderTest].options.fov # DefaultOptions.fov
    /\ cams[CameraUnderTest].position # DefaultPosition
    /\ cams[CameraUnderTest].options.aspect = <<2, 1>>


\* C37: after every completed update of a camera, its backend camera is at
\* the position of the element, looks at its `lookAt` and has its zoom, also
\* when the update replaced the backend camera because the type changed.
BackendFollowsPoseAcrossTypeChange ==
    [][ \A n \in CameraNodes :
          (op'.name = "camera.updated" /\ op'.a = n /\ ~threw' /\ HasCamera(cams'[n]))
          => /\ cams'[n]._camera[1].position = cams'[n].position
             /\ cams'[n]._camera[1].target = << cams'[n].lookAt >>
             /\ cams'[n]._camera[1].zoom = cams'[n].zoom ]_vars


\* C39: every call of updateAspectRatio, from the resize of the app and
\* from the registration of a camera, is made on a camera whose backend
\* camera has been created.
AspectRatioOnlyWithBackend ==
    [][ \A i \in 1..Len(calls') :
          calls'[i].fn = "updateAspectRatio" => HasCamera(cams[calls'[i].a]) ]_vars


\* ------------------------------------ scenes with objects (SpecSubtree)
\* Scene elements with object elements below them: the objects are
\* attached and detached one by one, and a scene is removed from the
\* document with the objects below it.

\* ThreeObject and its subclass ThreePlanet.
SubtreeKinds == {"three-object", "three-planet"}

\* The disconnectedCallbacks of the mounted objects bound to scene s, from
\* object o on, in the order of the document; the browser reports an
\* exception of one callback and goes on with the next.
RECURSIVE DisconnectObjectsOf(_, _, _)
DisconnectObjectsOf(r, s, o) ==
    IF o > NumObjects THEN r
    ELSE IF r.objs[o].mounted /\ r.objs[o]._sceneElement = s
         THEN With(ObjectDisconnectedCallback([r EXCEPT !.threw = FALSE], o), LAMBDA x :
                  DisconnectObjectsOf([x EXCEPT !.threw = x.threw \/ r.threw], s, o + 1))
         ELSE DisconnectObjectsOf(r, s, o + 1)

\* `scene.remove()`: the scene element s leaves the document with the
\* object elements below it.  The browser calls the disconnectedCallback
\* of the removed element first and then those of its descendants; the
\* `scene-disconnected` event of the removed scene does not reach the app.
SceneRemovedWithObjects(s) ==
    /\ scenes[s].mounted
    /\ \E r1 \in {DisconnectObjectsOf(
                     ORun(objs, [scenes EXCEPT ![s] = DisposeScene([@ EXCEPT !.mounted = FALSE])],
                          IF scenes[s]._scene # <<>>
                          THEN << Call("disposeScene", s, 0, 0) >> ELSE <<>>,
                          FALSE), s, 1)} :
          /\ objs' = r1.objs
          /\ scenes' = r1.scenes
          /\ op' = Op("scene.remove", s, 0)
          /\ calls' = r1.calls
          /\ threw' = r1.threw
    /\ UNCHANGED << cameraVars, _scenes, _activeScene, surfaceVars, timingVars, isConnected >>

NextSubtree ==
    \/ \E s \in SceneNodes : SceneConnected(s)
    \/ \E s \in SceneNodes : SceneUpdate(s)
    \/ \E o \in ObjectNodes, kind \in SubtreeKinds : ObjectCreated(o, kind)
    \/ \E o \in ObjectNodes, parent \in SceneNodes : ObjectConnected(o, parent)
    \/ \E o \in ObjectNodes : ObjectDisconnected(o)
    \/ \E s \in SceneNodes : SceneRemovedWithObjects(s)

SpecSubtree == InitForceGraph /\ [][NextSubtree]_vars

\* C34: when a scene is removed with mounted objects below it, dispose() of
\* each object runs before the backend scene is disposed and raises
\* nothing.
SceneDisposalIsBottomUp ==
    [][ (op'.name = "scene.remove" /\ Positions(calls', "object.dispose") # {})
        => /\ ~threw'
           /\ \A i \in Positions(calls', "object.dispose"), j \in Positions(calls', "disposeScene") :
                 i < j ]_vars


\* ------------------------------------------- scene rebuild (SpecRebuild)
\* A scene of a running app is rebuilt while object elements are attached
\* below it.

\* A change of the configuration of scene s: a write of its `id`, its only
\* declared property, which requests an update of the element.  The app
\* reads the id of a scene only when the scene registers or deregisters.
SceneChanged(s) ==
    /\ scenes[s].mounted
    /\ ~scenes[s].changed
    /\ scenes' = [scenes EXCEPT ![s].changed = TRUE]
    /\ Done("set scene id", s, 0, <<>>)
    /\ UNCHANGED << _scenes, _activeScene, cameraVars, surfaceVars, timingVars >>

NextRebuild ==
    \/ AppFirstUpdated
    \/ \E time \in SceneTimes : Tick(time)
    \/ SceneChanged(1)
    \/ SceneUpdate(1)
    \/ \E o \in ObjectNodes, kind \in SubtreeKinds \cup ObjectKinds : ObjectCreated(o, kind)
    \/ \E o \in ObjectNodes : ObjectConnected(o, 1)
    \/ \E o \in ObjectNodes : ObjectDisconnected(o)
    \/ \E o \in ObjectNodes : ForceGraphUpdated(o)

SpecRebuild == InitRemote /\ [][NextRebuild]_vars

\* The backend objects that the mounted object o has added to its scene.
ContentOf(os, o) ==
    IF os[o].kind = "three-planet" THEN os[o].created
    ELSE IF os[o].kind = "three-force-graph"
         THEN {LightOf(o)} \cup (IF os[o]._group = 0 THEN {}
                                 ELSE {Backend(o, "group", os[o]._group)})
         ELSE {}

\* C35: the update of a scene leaves it with a new and empty backend
\* scene, and whenever a scene is rendered, its backend scene holds the
\* content of every object mounted below it.
RebuiltSceneHoldsObjects ==
    [][ /\ \A s \in SceneNodes :
             (op'.name = "scene.updated" /\ op'.a = s)
             => scenes'[s]._scene = << [objects |-> {}] >>
        /\ \A i \in RenderPositions(calls'), o \in ObjectNodes :
             (objs'[o].mounted /\ objs'[o]._sceneElement = calls'[i].a /\ objs'[o].inits > 0)
             => /\ scenes'[calls'[i].a]._scene # <<>>
                /\ ContentOf(objs', o) \subseteq scenes'[calls'[i].a]._scene[1].objects ]_vars


\* -------------------------------------- nested objects (SpecNested)
\* Object elements appended to a scene of a running app, as children of
\* the scene or below another child element of it.

\* `scene.appendChild( o)`, or `scene.children[ i].appendChild( o)` when
\* `nested`: the object element o becomes the last child of scene s, or a
\* child of a child of s that is not an object (a <div>), and its
\* connectedCallback runs.
ObjectAppended(o, s, nested) ==
    /\ objs[o].kind # "none"
    /\ ~objs[o].mounted
    /\ objs[o].inits < MaxInits
    /\ scenes[s].mounted
    /\ IF nested
       THEN \E i \in 1..Len(scenes[s].children) : ~scenes[s].children[i].object
       ELSE /\ Len(scenes[s].children) < MaxChildren
            /\ \A i \in 1..Len(scenes[s].children) : scenes[s].children[i].elt # o
    /\ \E r1 \in {ObjectConnectedCallback(
                     ORun(objs,
                          IF nested THEN scenes
                          ELSE [scenes EXCEPT ![s].children = Append(@, [elt |-> o, object |-> TRUE])],
                          <<>>, FALSE), o, s)} :
          /\ objs' = r1.objs
          /\ scenes' = r1.scenes
          /\ op' = Op("appendChild", o, s)
          /\ calls' = r1.calls
          /\ threw' = r1.threw
    /\ UNCHANGED << cameraVars, _scenes, _activeScene, surfaceVars, timingVars, isConnected >>

\* `o.remove()`: the object element o leaves its parent and its
\* disconnectedCallback runs.
ObjectRemoved(o) ==
    /\ objs[o].mounted
    /\ objs[o]._sceneElement # Undefined
    /\ \E r1 \in {ObjectDisconnectedCallback(
                     ORun(objs,
                          [scenes EXCEPT ![objs[o]._sceneElement].children =
                              SelectSeq(@, LAMBDA child : ~(child.object /\ child.elt = o))],
                          <<>>, FALSE), o)} :
          /\ objs' = r1.objs
          /\ scenes' = r1.scenes
          /\ op' = Op("object.remove", o, 0)
          /\ calls' = r1.calls
          /\ threw' = r1.threw
    /\ UNCHANGED << cameraVars, _scenes, _activeScene, surfaceVars, timingVars, isConnected >>

NextNested ==
    \/ AppFirstUpdated
    \/ \E time \in SceneTimes : Tick(time)
    \/ \E p \in 1..MaxChildren : SceneInsertChild(1, p, FALSE)
    \/ \E o \in ObjectNodes, kind \in SubtreeKinds : ObjectCreated(o, kind)
    \/ \E o \in ObjectNodes, nested \in BOOLEAN : ObjectAppended(o, 1, nested)
    \/ \E o \in ObjectNodes : ObjectRemoved(o)

SpecNested == InitRemote /\ [][NextNested]_vars

\* The scene element s is in the registry of the app.
SceneIsRegistered(s) == \E i \in 1..Len(_scenes) : _scenes[i].elt = s

\* C36: in every step of the app that completes, each mounted object that
\* is bound to a registered scene has step( now, delta) called exactly
\* once, whether it is a child of the scene or nested below another child.
BoundObjectsSteppedOnce ==
    [][ (op'.name = "tick" /\ Positions(calls', "step") # {} /\ ~threw')
        => \A o \in ObjectNodes :
              (/\ objs[o].mounted
               /\ objs[o]._sceneElement # Undefined
               /\ SceneIsRegistered(objs[o]._sceneElement))
              => Cardinality({i \in Positions(calls', "object.step") :
                                calls'[i].a = ObjectRef(objs[o]._sceneElement, o)}) = 1 ]_vars


\* ----------------------------------- generated nodes (SpecGenerate)
\* Force graphs whose `generate` property is written, so that refresh()
\* starts the timer that adds the generated nodes one by one.

\* Largest value written to `generate`.
MaxGenerate == 2

\* updated() of the force graph o after `generate` was set to `total`.
ForceGraphGenerate(o, total) ==
    /\ objs[o].kind = "three-force-graph"
    /\ objs[o].mounted
    /\ objs[o].serial < MaxAdds
    /\ \E r1 \in {RefreshGenerate(ORun(objs, scenes, <<>>, FALSE), o, total)} :
          /\ objs' = r1.objs
          /\ scenes' = r1.scenes
          /\ op' = Op("graph.generate", o, total)
          /\ calls' = r1.calls
          /\ threw' = r1.threw
    /\ UNCHANGED << cameraVars, _scenes, _activeScene, surfaceVars, timingVars, isConnected >>

\* The browser runs the callback of a pending interval timer of the force
\* graph o; op.b is the group for which the timer was started.
GenerationTimerFired(o) ==
    /\ objs[o].serial < MaxAdds + 2 * MaxGenerate
    /\ \E t \in objs[o].timers :
       \E r1 \in {GenerationTimer(ORun(objs, scenes, <<>>, FALSE), o, t)} :
          /\ objs' = r1.objs
          /\ scenes' = r1.scenes
          /\ op' = Op("generation timer", o, t.group)
          /\ calls' = r1.calls
          /\ threw' = r1.threw
    /\ UNCHANGED << cameraVars, _scenes, _activeScene, surfaceVars, timingVars, isConnected >>

NextGenerate ==
    \/ \E o \in ObjectNodes : ObjectCreated(o, "three-force-graph")
    \/ \E o \in ObjectNodes : ObjectConnected(o, 1)
    \/ \E o \in ObjectNodes : ObjectDisconnected(o)
    \/ \E o \in ObjectNodes : ForceGraphUpdated(o)
    \/ \E o \in ObjectNodes, total \in 1..MaxGenerate : ForceGraphGenerate(o, total)
    \/ \E o \in ObjectNodes : GenerationTimerFired(o)

SpecGenerate == InitForceGraph /\ [][NextGenerate]_vars

\* C40: a callback of the generation timer adds nodes and links only to
\* the group of the refresh() that started it, and only while the element
\* has not been disposed.
GenerationTimerStopsAtTeardown ==
    [][ \A o \in ObjectNodes :
          (op'.name = "generation timer" /\ op'.a = o /\ Positions(calls', "group.add") # {})
          => /\ op'.b = objs[o]._group
             /\ objs[o].mounted ]_vars


====
